---- MODULE Spec2Model ----
(***************************************************************************)
(* A model of the Exif reader of exif.c: the JPEG segment scanner          *)
(* (getApp1StartOffset), the APP1/TIFF header reader                       *)
(* (readApp1SegmentHeader), the IFD parser (parseIFD), the orchestration   *)
(* of createIfdTableArray and the segment remover                          *)
(* (removeExifSegmentFromJPEGFile).                                        *)
(*                                                                         *)
(* Files are sequences of bytes (0..255); file offsets are 0-based, so the *)
(* byte at offset p of file f is f[p + 1].  Multi-byte variables of the C  *)
(* code are loaded from memory in host order (hostLE), exactly as fread    *)
(* into an unsigned short / unsigned int does, and then normalised by the  *)
(* code's own swab16 / swab32 / fix_short / fix_int.                       *)
(*                                                                         *)
(* A 32-bit unsigned int is the pair <<hi, lo>> of its 16-bit halves,      *)
(* with the arithmetic the code does on it taken modulo 2^32.              *)
(*                                                                         *)
(* Assumptions of the model: an LP64 build (int and unsigned int 32 bits,  *)
(* long and size_t 64 bits, #pragma pack(2) giving an 18-byte APP1_HEADER);*)
(* files shorter than 2^30 bytes; malloc of the small blocks of parseIFD   *)
(* succeeds; fwrite and fclose succeed.                                    *)
(***************************************************************************)
EXTENDS Integers, Sequences, FiniteSets, TLC

VARIABLES
    hostLE,           \* systemIsLittleEndian(): the byte order of the host
    op,               \* the public function being executed
    pc,               \* the position inside that function
    src,              \* the bytes of the JPEG file that is read
    dstWritable,      \* whether fopen(outJPGEFileName, "wb") can succeed
    dstState,         \* "absent" or "created": the destination file
    dst,              \* the bytes written to the destination file
    App1StartOffset,  \* static int App1StartOffset
    App1Header,       \* static APP1_HEADER App1Header, as its 18-byte image
    sts,              \* the local sts
    ifdArray,         \* the local ifdArray[0 .. ifdCount-1]
    parsed,           \* the IFD types parseIFD was called for, in order
    result,           \* *result or the value returned (-100: none yet)
    ret,              \* the pointer returned by createIfdTableArray
    held,             \* the tags the query functions have handed to the caller
    freeLog,          \* the heap blocks passed to free(), in order
    other             \* the file a concurrent call has run init on

vars == <<hostLE, op, pc, src, dstWritable, dstState, dst, App1StartOffset,
          App1Header, sts, ifdArray, parsed, result, ret, held, freeLog, other>>

\* the state of the caller's side, which the two public functions leave alone
caller == <<held, freeLog, other>>

(***************************************************************************)
(* Program constants                                                       *)
(***************************************************************************)
ERR_READ_FILE == -1
ERR_WRITE_FILE == -2
ERR_INVALID_JPEG == -3
ERR_INVALID_APP1HEADER == -4
ERR_INVALID_IFD == -5

IFD_0TH == "IFD_0TH"
IFD_1ST == "IFD_1ST"
IFD_EXIF == "IFD_EXIF"
IFD_GPS == "IFD_GPS"
IFD_IO == "IFD_IO"

TYPE_BYTE == 1
TYPE_ASCII == 2
TYPE_SHORT == 3
TYPE_LONG == 4
TYPE_RATIONAL == 5
TYPE_SBYTE == 6
TYPE_UNDEFINED == 7
TYPE_SSHORT == 8
TYPE_SLONG == 9
TYPE_SRATIONAL == 10

TAG_ExifIFDPointer == 34665              \* 0x8769
TAG_GPSInfoIFDPointer == 34853           \* 0x8825
TAG_InteroperabilityIFDPointer == 40965  \* 0xA005

MARKER_SOI == 65496       \* 0xFFD8
MARKER_DQT == 65499       \* 0xFFDB
MARKER_APP0 == 65504      \* 0xFFE0
MARKER_APP1 == 65505      \* 0xFFE1
MARKER_APP15 == 65519     \* 0xFFEF
BYTEORDER_II == 18761     \* 0x4949
BYTEORDER_MM == 19789     \* 0x4D4D
TIFF_VERSION == 42        \* 0x002A
EXIF_ID_STR == <<69, 120, 105, 102, 0>>   \* "Exif\0"
EXIF_ID_STR_LEN == 5
SIZEOF_APP1_HEADER == 18  \* sizeof(APP1_HEADER) under #pragma pack(2)
OFFSETOF_TIFF == 10       \* offsetof(APP1_HEADER, tiff)
SIZEOF_TIFF_HEADER == 8   \* sizeof(TIFF_HEADER)
SIZEOF_IFD_TAG == 12      \* sizeof(IFD_TAG)
SIZEOF_BUF == 8192        \* unsigned char buf[8192]

UShortRange == 256 * 256                  \* unsigned short: 16 bits

\* unsigned int values: <<hi, lo>> stands for hi * 2^16 + lo
U32(n) == <<n \div UShortRange, n % UShortRange>>
U32Add(a, b) ==
    <<(a[1] + b[1] + ((a[2] + b[2]) \div UShortRange)) % UShortRange,
      (a[2] + b[2]) % UShortRange>>
U32Double(a) == U32Add(a, a)
U32Times(size, a) ==
    IF size = 1 THEN a ELSE IF size = 2 THEN U32Double(a) ELSE U32Double(U32Double(a))
\* a compared with the natural number n < 2^31
U32Less(a, n) ==
    a[1] < n \div UShortRange \/ (a[1] = n \div UShortRange /\ a[2] < n % UShortRange)
U32AtMost(a, n) == U32Less(a, n) \/ a = U32(n)
\* (int)a < 0
U32Negative(a) == a[1] >= UShortRange \div 2

\* a null pointer to a structure
NULL == [null |-> TRUE]

\* a pointer to an array: null, or at the elements seq
NullPtr == [null |-> TRUE, at |-> <<>>]
Ptr(seq) == [null |-> FALSE, at |-> seq]

\* the name of a file that cannot be opened
NoFile == <<-1>>

(***************************************************************************)
(* Byte-order codec                                                        *)
(***************************************************************************)
systemIsLittleEndian == hostLE

\* an unsigned short whose two bytes in memory are b0, b1
Load16(b0, b1) ==
    IF systemIsLittleEndian THEN b0 + 256 * b1 ELSE 256 * b0 + b1

\* an unsigned int whose four bytes in memory are b0 .. b3
Load32(b0, b1, b2, b3) ==
    IF systemIsLittleEndian
    THEN <<b2 + 256 * b3, b0 + 256 * b1>>
    ELSE <<256 * b0 + b1, 256 * b2 + b3>>

\* the two / four bytes in memory of an unsigned short / unsigned int
Store16(us) ==
    IF systemIsLittleEndian THEN <<us % 256, us \div 256>>
    ELSE <<us \div 256, us % 256>>

Store32(ui) ==
    LET b0 == ui[2] % 256
        b1 == ui[2] \div 256
        b2 == ui[1] % 256
        b3 == ui[1] \div 256
    IN  IF systemIsLittleEndian THEN <<b0, b1, b2, b3>> ELSE <<b3, b2, b1, b0>>

swab16(us) == ((us * 256) % UShortRange) + ((us \div 256) % 256)

swab32(ui) ==
    <<((ui[2] % 256) * 256) + (ui[2] \div 256),
      ((ui[1] % 256) * 256) + (ui[1] \div 256)>>

\* fields of the APP1_HEADER image h (a sequence of 18 bytes)
HdrLength(h) == Load16(h[3], h[4])
HdrByteOrder(h) == Load16(h[11], h[12])
HdrReserved(h) == Load16(h[13], h[14])
HdrIfd0thOffset(h) == Load32(h[15], h[16], h[17], h[18])

dataIsLittleEndian(h) == HdrByteOrder(h) = BYTEORDER_II

fix_short(h, us) ==
    IF dataIsLittleEndian(h) # systemIsLittleEndian THEN swab16(us) ELSE us

fix_int(h, ui) ==
    IF dataIsLittleEndian(h) # systemIsLittleEndian THEN swab32(ui) ELSE ui

(***************************************************************************)
(* stdio on a file f                                                       *)
(***************************************************************************)
\* the number of bytes fread delivers at offset pos when asked for n
FreadLen(f, pos, n) ==
    IF pos >= Len(f) THEN 0
    ELSE IF pos + n <= Len(f) THEN n ELSE Len(f) - pos

\* the same when the number asked for is an unsigned int
FreadLen32(f, pos, n) ==
    IF pos >= Len(f) THEN 0
    ELSE IF U32Less(n, Len(f) - pos) THEN n[2] + UShortRange * n[1]
    ELSE Len(f) - pos

\* fread(&us, 1, sizeof(short), fp) at offset pos, when 2 bytes are there
Fread16(f, pos) == Load16(f[pos + 1], f[pos + 2])

\* fread(&ui, 1, sizeof(int), fp) at offset pos, when 4 bytes are there
Fread32(f, pos) == Load32(f[pos + 1], f[pos + 2], f[pos + 3], f[pos + 4])

\* ReadMarker without the swap on little-endian hosts
ReadMarkerHostOrder(f, pos) == Fread16(f, pos)

\* a JPEG marker or length: read in host order, swapped on little-endian hosts
ReadMarker(f, pos) ==
    IF systemIsLittleEndian THEN swab16(Fread16(f, pos)) ELSE Fread16(f, pos)

(***************************************************************************)
(* getApp1StartOffset                                                      *)
(***************************************************************************)
IsAppMarker(marker) == marker >= MARKER_APP0 /\ marker <= MARKER_APP15

\* SkipOtherSegment skipping len bytes from the end of the length field
SkipOtherSegmentAfterLength(pos, len) == (pos + 2) + len

\* the file position after a segment that is not APP1:
\* fseek(fp, len - sizeof(short), SEEK_CUR) from pos + 2.  len - 2 is
\* computed in size_t and converted to long, so len < 2 seeks backwards.
SkipOtherSegment(pos, len) == (pos + 2) + (len - 2)

\* SkipApp1Segment skipping len bytes from the end of the length field
SkipApp1SegmentAfterLength(pos, len) == (pos + 2) + len

\* the file position after an APP1 segment that is not Exif:
\* fseek(fp, pos, SEEK_SET) then fseek(fp, len, SEEK_CUR)
SkipApp1Segment(pos, len) == pos + len

\* the value returned for the Exif segment whose marker was read up to pos
FoundOffset(pos) == pos - 2

\* the for (;;) loop: marker is the marker last read, pos the position after
\* it.  Returns the value returned and the last marker read.
RECURSIVE ScanLoop(_, _, _)
ScanLoop(f, marker, pos) ==
    IF ~IsAppMarker(marker) THEN [ret |-> 0, marker |-> marker]
    ELSE IF FreadLen(f, pos, 2) < 2
    THEN [ret |-> ERR_READ_FILE, marker |-> marker]
    ELSE
      LET len == ReadMarker(f, pos)
          isExif == /\ marker = MARKER_APP1
                    /\ FreadLen(f, pos + 2, EXIF_ID_STR_LEN) = EXIF_ID_STR_LEN
                    /\ SubSeq(f, pos + 3, pos + 2 + EXIF_ID_STR_LEN) = EXIF_ID_STR
          next == IF marker # MARKER_APP1 THEN SkipOtherSegment(pos, len)
                  ELSE SkipApp1Segment(pos, len)
      IN  IF marker = MARKER_APP1
             /\ FreadLen(f, pos + 2, EXIF_ID_STR_LEN) < EXIF_ID_STR_LEN
          THEN [ret |-> ERR_READ_FILE, marker |-> marker]
          ELSE IF isExif THEN [ret |-> FoundOffset(pos), marker |-> marker]
          ELSE IF next < 0 THEN [ret |-> ERR_INVALID_JPEG, marker |-> marker]
          ELSE IF FreadLen(f, next, 2) < 2
          THEN [ret |-> ERR_READ_FILE, marker |-> marker]
          ELSE ScanLoop(f, ReadMarker(f, next), next + 2)

\* the file positions of the markers the for (;;) loop has in `marker`, one
\* after the other: the marker last read stands at pos - 2
RECURSIVE ScanVisits(_, _, _)
ScanVisits(f, marker, pos) ==
    IF ~IsAppMarker(marker) \/ FreadLen(f, pos, 2) < 2 THEN <<pos - 2>>
    ELSE
      LET len == ReadMarker(f, pos)
          isExif == /\ marker = MARKER_APP1
                    /\ FreadLen(f, pos + 2, EXIF_ID_STR_LEN) = EXIF_ID_STR_LEN
                    /\ SubSeq(f, pos + 3, pos + 2 + EXIF_ID_STR_LEN) = EXIF_ID_STR
          next == IF marker # MARKER_APP1 THEN SkipOtherSegment(pos, len)
                  ELSE SkipApp1Segment(pos, len)
      IN  IF marker = MARKER_APP1
             /\ FreadLen(f, pos + 2, EXIF_ID_STR_LEN) < EXIF_ID_STR_LEN
          THEN <<pos - 2>>
          ELSE IF isExif \/ next < 0 \/ FreadLen(f, next, 2) < 2 THEN <<pos - 2>>
          ELSE <<pos - 2>> \o ScanVisits(f, ReadMarker(f, next), next + 2)

\* the positions of the markers read behind SOI
MarkersRead(f) ==
    IF FreadLen(f, 0, 2) < 2 \/ FreadLen(f, 2, 2) < 2 THEN <<>>
    ELSE IF ReadMarker(f, 0) # MARKER_SOI \/ ReadMarker(f, 2) = MARKER_DQT THEN <<>>
    ELSE ScanVisits(f, ReadMarker(f, 2), 4)

ScanFile(f) ==
    IF FreadLen(f, 0, 2) < 2 THEN [ret |-> ERR_READ_FILE, marker |-> -1]
    ELSE IF ReadMarker(f, 0) # MARKER_SOI
    THEN [ret |-> ERR_INVALID_JPEG, marker |-> ReadMarker(f, 0)]
    ELSE IF FreadLen(f, 2, 2) < 2
    THEN [ret |-> ERR_READ_FILE, marker |-> MARKER_SOI]
    ELSE IF ReadMarker(f, 2) = MARKER_DQT
    THEN [ret |-> 0, marker |-> MARKER_DQT]
    ELSE ScanLoop(f, ReadMarker(f, 2), 4)

getApp1StartOffset(f) == ScanFile(f).ret

(***************************************************************************)
(* readApp1SegmentHeader                                                   *)
(***************************************************************************)
\* the image h after bytes have been stored at its 0-based offset o
HdrStore(h, o, bytes) ==
    [i \in 1..SIZEOF_APP1_HEADER |->
        IF i > o /\ i <= o + Len(bytes) THEN bytes[i - o] ELSE h[i]]

\* fread(&App1Header, 1, sizeof(APP1_HEADER), fp) at offset off: the bytes
\* delivered overwrite the head of the image, also when the read is short
HdrRead(f, off, h) ==
    HdrStore(h, 0, SubSeq(f, off + 1, off + FreadLen(f, off, SIZEOF_APP1_HEADER)))

\* the length field after "if (systemIsLittleEndian()) length = swab16(length)"
NormalisedLength(h) ==
    IF systemIsLittleEndian THEN swab16(HdrLength(h)) ELSE HdrLength(h)

\* ByteOrderValid accepting the little-endian identifier only
ByteOrderOnlyII(bo) == bo = BYTEORDER_II

ByteOrderValid(bo) == bo = BYTEORDER_MM \/ bo = BYTEORDER_II

\* lines 1189..1196, on the image h2 whose length is normalised:
\* h3 has the version normalised as well
HeaderVersion(h2, h3) ==
    IF HdrReserved(h3) # TIFF_VERSION THEN [ok |-> 0, hdr |-> h3]
    ELSE [ok |-> 1, hdr |-> HdrStore(h3, 14, Store32(fix_int(h3, HdrIfd0thOffset(h3))))]

\* lines 1184..1188
HeaderByteOrder(h2) ==
    IF ~ByteOrderValid(HdrByteOrder(h2)) THEN [ok |-> 0, hdr |-> h2]
    ELSE HeaderVersion(h2, HdrStore(h2, 12, Store16(fix_short(h2, HdrReserved(h2)))))

\* lines 1180..1183, on the image h1 just read
HeaderLength(h1) == HeaderByteOrder(HdrStore(h1, 2, Store16(NormalisedLength(h1))))

\* returns ok (1 or 0) and the image left in App1Header
readApp1SegmentHeader(f, off, h) ==
    IF FreadLen(f, off, SIZEOF_APP1_HEADER) < SIZEOF_APP1_HEADER
    THEN [ok |-> 0, hdr |-> HdrRead(f, off, h)]
    ELSE HeaderLength(HdrRead(f, off, h))

(***************************************************************************)
(* init                                                                    *)
(***************************************************************************)
\* returns sts and the values left in App1StartOffset and App1Header
\* InitHeader ignoring the value of readApp1SegmentHeader
InitHeaderUnchecked(s, r) == [sts |-> 1, off |-> s, hdr |-> r.hdr]

InitHeader(s, r) ==
    IF r.ok = 0 THEN [sts |-> ERR_INVALID_APP1HEADER, off |-> s, hdr |-> r.hdr]
    ELSE [sts |-> 1, off |-> s, hdr |-> r.hdr]

InitAt(f, s, off0, h0) ==
    IF s <= 0 THEN [sts |-> s, off |-> off0, hdr |-> h0]
    ELSE InitHeader(s, readApp1SegmentHeader(f, s, h0))

init(f, off0, h0) == InitAt(f, getApp1StartOffset(f), off0, h0)

(***************************************************************************)
(* parseIFD                                                                *)
(***************************************************************************)
\* the bytes of file f from offset p, n of them
ReadAt(f, p, n) == SubSeq(f, p + 1, p + n)

\* a file position no file reaches
FarPos == (UShortRange \div 4) * UShortRange

\* the file position seekToRelativeOffset(fp, ofs) seeks to: int + int +
\* unsigned int is computed in unsigned int
SeekPos(off, ofs) ==
    LET s == U32Add(U32(off + OFFSETOF_TIFF), ofs)
    IN  IF U32Less(s, FarPos) THEN s[1] * UShortRange + s[2] ELSE FarPos

\* the value of the unsigned int val after memcpy(&val, bytes, Len(bytes)):
\* the first bytes of its image are replaced, the others keep their value
MemcpyVal(val, bytes) ==
    LET img == Store32(val)
        new == [i \in 1..4 |-> IF i <= Len(bytes) THEN bytes[i] ELSE img[i]]
    IN  Load32(new[1], new[2], new[3], new[4])

IsRational(type) == type = TYPE_RATIONAL \/ type = TYPE_SRATIONAL
IsByteType(type) == type = TYPE_BYTE \/ type = TYPE_SBYTE
IsShortType(type) == type = TYPE_SHORT \/ type = TYPE_SSHORT
IsBytesType(type) == type = TYPE_ASCII \/ type = TYPE_UNDEFINED
IsNumericType(type) ==
    type \in {TYPE_BYTE, TYPE_SHORT, TYPE_LONG, TYPE_SBYTE, TYPE_SSHORT, TYPE_SLONG}

\* the TagNode addTagNodeToIfd builds; numData and byteData are the source
\* arrays.  The number of elements copied is
\* num = (int)count, doubled for rationals.  ub: the copy reads past the
\* source array (every source array has fewer than 2^16 elements), or
\* doubling overflows the int.
addTagNodeToIfd(tagId, type, count, numData, byteData) ==
    LET num == IF IsRational(type) THEN 2 * count[2] ELSE count[2]
        base == [tagId |-> tagId, type |-> type, count |-> count,
                 numData |-> NullPtr, byteData |-> NullPtr, error |-> 0]
    IN  IF count # U32(0) /\ ~numData.null
        THEN IF count[1] > 0
             THEN [node |-> base, ub |-> IsRational(type) \/ ~U32Negative(count)]
             ELSE [node |-> [base EXCEPT !.numData = Ptr(SubSeq(numData.at, 1, num))],
                   ub |-> num > Len(numData.at)]
        ELSE IF count # U32(0) /\ ~byteData.null
        THEN [node |-> [base EXCEPT
                            !.byteData = Ptr(SubSeq(byteData.at, 1, count[2]))],
              ub |-> count[1] > 0 \/ count[2] > Len(byteData.at)]
        ELSE [node |-> [base EXCEPT !.error = 1], ub |-> FALSE]

\* One decoded tag: add (a node is appended), node, val (the local val
\* afterwards), cur (the file position afterwards), ub.
Decoded(n, val, cur, ub) ==
    [add |-> TRUE, node |-> n.node, val |-> val, cur |-> cur, ub |-> ub \/ n.ub]

\* IsInlineBytes with the boundary one byte lower
IsInlineBytesBelow4(count) == U32Less(count, 4)

\* "4 bytes or less data is placed in the 'offset' area directly" (line 1022)
IsInlineBytes(count) == U32AtMost(count, 4)

\* Ascii / Undefined (lines 1020..1055)
DecodeBytes(f, off, h, t, val) ==
    LET p == SeekPos(off, t.offset)
        got == FreadLen32(f, p, t.count)
        err == addTagNodeToIfd(t.tag, t.type, t.count, NullPtr, NullPtr)
    IN  IF IsInlineBytes(t.count)
        THEN Decoded(addTagNodeToIfd(t.tag, t.type, t.count, NullPtr, Ptr(t.data)),
                     val, t.pos, FALSE)
        ELSE IF ~U32AtMost(t.count, SIZEOF_BUF) /\ ~U32Less(t.count, HdrLength(h))
        THEN Decoded(err, val, t.pos, FALSE)
        ELSE IF U32(got) # t.count
        THEN Decoded(err, val, p + got, FALSE)
        ELSE Decoded(addTagNodeToIfd(t.tag, t.type, t.count, NullPtr, Ptr(ReadAt(f, p, got))),
                     val, p + got, FALSE)

\* Rational / SRational (lines 1056..1079); len = realCount * sizeof(int)
\* is computed in size_t
DecodeRational(f, off, h, t, val) ==
    LET realCount == U32Double(t.count)
        len == 4 * realCount[2]
        p == SeekPos(off, t.offset)
        got == FreadLen(f, p, len)
        array == [i \in 1..realCount[2] |-> fix_int(h, Fread32(f, p + 4 * (i - 1)))]
        err == addTagNodeToIfd(t.tag, t.type, t.count, NullPtr, NullPtr)
    IN  IF realCount[1] > 0 \/ len >= HdrLength(h) THEN Decoded(err, val, t.pos, FALSE)
        ELSE IF got < len THEN Decoded(err, val, p + got, FALSE)
        ELSE Decoded(addTagNodeToIfd(t.tag, t.type, t.count, Ptr(array), NullPtr),
                     val, p + got, FALSE)

\* the single value of a Byte / Short / Long tag (count <= 1, lines 1089..1100)
SingleValue(h, t) ==
    IF IsByteType(t.type) THEN U32(t.data[1])
    ELSE IF IsShortType(t.type) THEN U32(fix_short(h, Load16(t.data[1], t.data[2])))
    ELSE t.offset

ElementSize(type) ==
    IF IsByteType(type) THEN 1 ELSE IF IsShortType(type) THEN 2 ELSE 4

\* val after the i-th element (size bytes at buf[i*size]) has been copied
\* into it and normalised (lines 1143..1148)
ElementVal(h, val, bytes) ==
    LET v == MemcpyVal(val, bytes)
    IN  IF Len(bytes) = 4 THEN fix_int(h, v)
        ELSE IF Len(bytes) = 2 THEN U32(fix_short(h, v[2]))
        ELSE v

\* the loop of lines 1142..1150 over the elements i .. n-1 of buf:
\* the array elements, and val after the last one
RECURSIVE CopyElements(_, _, _, _, _, _)
CopyElements(h, buf, size, i, n, val) ==
    IF i >= n THEN [array |-> <<>>, val |-> val]
    ELSE LET v == ElementVal(h, val, SubSeq(buf, i * size + 1, i * size + size))
             rest == CopyElements(h, buf, size, i + 1, n, v)
         IN  [array |-> <<v>> \o rest.array, val |-> rest.val]

\* Byte / Short / Long and the signed variants (lines 1080..1155).
\* allocSize = sizeof(int) * count and len = size * count are computed in
\* unsigned int.  ub: array is written or read past its allocSize bytes, or
\* fread stores more than sizeof(buf) bytes into buf.
DecodeNumeric(f, off, h, t, val) ==
    LET size == ElementSize(t.type)
        allocSize == U32Times(4, t.count)
        len == U32Times(size, t.count)
        p == SeekPos(off, t.offset)
        got == FreadLen32(f, p, len)
        err == addTagNodeToIfd(t.tag, t.type, t.count, NullPtr, NullPtr)
        single == SingleValue(h, t)
        inline == IF size = 1 THEN [i \in 1..t.count[2] |-> U32(t.data[i])]
                  ELSE <<U32(fix_short(h, Load16(t.data[1], t.data[2]))),
                         U32(fix_short(h, Load16(t.data[3], t.data[4])))>>
        copied == CopyElements(h, ReadAt(f, p, got), size, 0, t.count[2], val)
    IN  IF U32AtMost(t.count, 1)
        THEN Decoded(addTagNodeToIfd(t.tag, t.type, t.count, Ptr(<<single>>), NullPtr),
                     single, t.pos, FALSE)
        ELSE IF ~U32Less(allocSize, HdrLength(h)) THEN Decoded(err, val, t.pos, FALSE)
        ELSE IF U32AtMost(len, 4)
        THEN IF t.count[1] > 0 \/ size = 4
             THEN Decoded(err, val, t.pos, TRUE)
             ELSE Decoded(addTagNodeToIfd(t.tag, t.type, t.count, Ptr(inline), NullPtr),
                          val, t.pos, FALSE)
        ELSE IF got > SIZEOF_BUF THEN Decoded(err, val, p + got, TRUE)
        ELSE IF U32(got) # len
        THEN Decoded(err, val, p + got, FALSE)
        ELSE IF t.count[1] > 0
        THEN Decoded(addTagNodeToIfd(t.tag, t.type, t.count, Ptr(<<>>), NullPtr),
                     val, p + got, FALSE)
        ELSE Decoded(addTagNodeToIfd(t.tag, t.type, t.count, Ptr(copied.array), NullPtr),
                     copied.val, p + got, FALSE)

\* the descriptor read at file offset d (lines 1006..1015)
Descriptor(f, h, d) ==
    [tag |-> fix_short(h, Fread16(f, d)),
     type |-> fix_short(h, Fread16(f, d + 2)),
     count |-> fix_int(h, Fread32(f, d + 4)),
     offset |-> fix_int(h, Fread32(f, d + 8)),
     data |-> ReadAt(f, d + 8, 4),
     pos |-> d + SIZEOF_IFD_TAG]

\* the body of the tag loop for one descriptor (lines 1020..1155); a type
\* that is none of the ten adds no node
DecodeTag(f, off, h, t, val) ==
    IF IsBytesType(t.type) THEN DecodeBytes(f, off, h, t, val)
    ELSE IF IsRational(t.type) THEN DecodeRational(f, off, h, t, val)
    ELSE IF IsNumericType(t.type) THEN DecodeNumeric(f, off, h, t, val)
    ELSE [add |-> FALSE, node |-> NULL, val |-> val, cur |-> t.pos, ub |-> FALSE]

\* no out-of-line value is read
NoRead == [asked |-> U32(0), capacity |-> 0]

\* the fread of the out-of-line value of the descriptor t (lines 1042..1043,
\* 1064..1065, 1137..1138): the number of bytes asked for, and the size of
\* the buffer they are stored in: buf, or the block malloc returned
ReadRequest(h, t) ==
    IF IsBytesType(t.type)
    THEN IF IsInlineBytes(t.count) THEN NoRead
         ELSE IF U32AtMost(t.count, SIZEOF_BUF)
         THEN [asked |-> t.count, capacity |-> SIZEOF_BUF]
         ELSE IF ~U32Less(t.count, HdrLength(h)) THEN NoRead
         ELSE [asked |-> t.count, capacity |-> t.count[2]]
    ELSE IF IsRational(t.type)
    THEN IF U32Double(t.count)[1] > 0 \/ 4 * U32Double(t.count)[2] >= HdrLength(h)
         THEN NoRead
         ELSE [asked |-> U32(4 * U32Double(t.count)[2]),
               capacity |-> 4 * U32Double(t.count)[2]]
    ELSE IF IsNumericType(t.type)
    THEN IF U32AtMost(t.count, 1) \/ ~U32Less(U32Times(4, t.count), HdrLength(h))
            \/ U32AtMost(U32Times(ElementSize(t.type), t.count), 4)
         THEN NoRead
         ELSE [asked |-> U32Times(ElementSize(t.type), t.count), capacity |-> SIZEOF_BUF]
    ELSE NoRead

\* where the next descriptor is read: fseek(fp, pos, SEEK_SET) at line 1006
\* (pos is the saved position, cur the current file position)
DescriptorPos(pos, cur) == pos

\* the tag loop (lines 1003..1156): the tags added, and whether it ended
\* without goto ERR.  cnt descriptors remain; pos is the saved position,
\* cur the file position, val the local val.
RECURSIVE ParseTags(_, _, _, _, _, _, _, _, _)

\* the rest of the loop after the descriptor at d has been decoded to r
ParseTagsAfter(f, off, h, cnt, d, r, tags, ub) ==
    ParseTags(f, off, h, cnt - 1, d + SIZEOF_IFD_TAG, r.cur, r.val,
              IF r.add THEN Append(tags, r.node) ELSE tags, ub \/ r.ub)

\* one iteration reading its descriptor at d
ParseTagsAt(f, off, h, cnt, d, val, tags, ub) ==
    IF FreadLen(f, d, SIZEOF_IFD_TAG) < SIZEOF_IFD_TAG
    THEN [ok |-> FALSE, tags |-> tags, ub |-> ub]
    ELSE ParseTagsAfter(f, off, h, cnt, d,
                        DecodeTag(f, off, h, Descriptor(f, h, d), val), tags, ub)

ParseTags(f, off, h, cnt, pos, cur, val, tags, ub) ==
    IF cnt = 0 THEN [ok |-> TRUE, tags |-> tags, ub |-> ub]
    ELSE ParseTagsAt(f, off, h, cnt, DescriptorPos(pos, cur), val, tags, ub)

\* the offset, relative to the TIFF header, at which the 0th IFD's
\* next-IFD field is read (line 992)
NextOffsetField(startOffset, tagCount) ==
    U32(SIZEOF_TIFF_HEADER + 2 + SIZEOF_IFD_TAG * tagCount)

\* createIfdTable and the value parseIFD returns after the tag loop
IfdResult(ifdType, tagCount, nextOffset, r) ==
    IF ~r.ok THEN [ifd |-> NULL, ub |-> r.ub]
    ELSE [ifd |-> [ifdType |-> ifdType, tagCount |-> tagCount,
                   tags |-> r.tags, nextIfdOffset |-> nextOffset],
          ub |-> r.ub]

\* parseIFD after the tag count has been read at p0 (lines 985..1157)
ParseIfdAt(f, off, h, p0, tagCount, pn, ifdType, val0) ==
    IF ifdType = IFD_0TH /\ FreadLen(f, pn, 4) < 4 THEN [ifd |-> NULL, ub |-> FALSE]
    ELSE IfdResult(ifdType, tagCount,
                   IF ifdType = IFD_0TH THEN fix_int(h, Fread32(f, pn)) ELSE U32(0),
                   ParseTags(f, off, h, tagCount, p0 + 2, p0 + 2, val0, <<>>, FALSE))

\* after the seek to the IFD (lines 981..984)
ParseIfdFrom(f, off, h, startOffset, p0, ifdType, val0) ==
    IF FreadLen(f, p0, 2) < 2 THEN [ifd |-> NULL, ub |-> FALSE]
    ELSE ParseIfdAt(f, off, h, p0, fix_short(h, Fread16(f, p0)),
                    SeekPos(off, NextOffsetField(startOffset, fix_short(h, Fread16(f, p0)))),
                    ifdType, val0)

\* parseIFD(fp, startOffset, ifdType) with App1StartOffset = off and
\* App1Header = h; val0 is the initial content of the local val.
\* Returns ifd (NULL or the table) and ub.
parseIFD(f, off, h, startOffset, ifdType, val0) ==
    ParseIfdFrom(f, off, h, startOffset, SeekPos(off, startOffset), ifdType, val0)

\* getTagNodePtrFromIfd: the first tag of ifd with that id, or NULL
getTagNodePtrFromIfd(ifd, tagId) ==
    LET hits == {i \in 1..Len(ifd.tags) : ifd.tags[i].tagId = tagId}
    IN  IF ifd = NULL \/ hits = {} THEN NULL
        ELSE ifd.tags[CHOOSE i \in hits : \A j \in hits : i <= j]

(***************************************************************************)
(* Input files                                                             *)
(***************************************************************************)
MaxPad == 2      \* payload sizes 0..MaxPad of the segments before the Exif segment
MaxCount == 5    \* counts 0..MaxCount of the tag under test

BE16(v) == <<v \div 256, v % 256>>
Enc16(le, v) == IF le THEN <<v % 256, v \div 256>> ELSE BE16(v)
Enc32(le, v) ==
    IF le THEN <<v % 256, (v \div 256) % 256, (v \div 65536) % 256, v \div 16777216>>
    ELSE <<v \div 16777216, (v \div 65536) % 256, (v \div 256) % 256, v % 256>>

Pad(n) == [i \in 1..n |-> (i * 7) % 251]
Segment(marker, len, payload) == BE16(marker) \o BE16(len) \o payload
SoiBytes == BE16(MARKER_SOI)
DqtBytes == Segment(MARKER_DQT, 4, <<0, 16>>) \o <<255, 217>>
ExifId == EXIF_ID_STR \o <<0>>

TagBytes(le, id, type, count, value) ==
    Enc16(le, id) \o Enc16(le, type) \o Enc32(le, count) \o value

TiffHeader(le, ifd0) ==
    (IF le THEN <<73, 73>> ELSE <<77, 77>>) \o Enc16(le, TIFF_VERSION) \o Enc32(le, ifd0)

\* the Exif APP1 segment around a TIFF block (header and body)
ExifSegment(tiff) == Segment(MARKER_APP1, 8 + Len(tiff), ExifId \o tiff)

\* a 0th IFD with one Short tag (Orientation = 6) and no further IFD
MinimalTiff(le) ==
    TiffHeader(le, 8) \o Enc16(le, 1)
    \o TagBytes(le, 274, TYPE_SHORT, 1, Enc16(le, 6) \o <<0, 0>>) \o Enc32(le, 0)

\* every proper and improper prefix of f with at least n bytes
Prefixes(f, n) == {SubSeq(f, 1, k) : k \in n..Len(f)}

\* --- the scanner's inputs: segments before and after the Exif segment
LeadSegments ==
    {<<>>}
    \cup {Segment(MARKER_APP0, 2 + k, Pad(k)) : k \in 0..MaxPad}
    \cup {Segment(MARKER_APP15, 2 + k, Pad(k)) : k \in 1..MaxPad}
    \cup {Segment(MARKER_APP1, 2 + k, Pad(k)) : k \in 0..MaxPad}
    \cup {Segment(MARKER_APP1, 9, <<69, 120, 105, 102, 1, 0, 0>>),
          Segment(MARKER_APP1, 7, <<104, 116, 116, 112, 58>>)
              \o Segment(MARKER_APP0 + 2, 3, <<9>>),
          Segment(MARKER_APP0, 0, <<1, 2>>),
          Segment(MARKER_APP0, 1, <<1, 2>>),
          Segment(MARKER_APP1, 0, <<1, 2, 3, 4, 5>>),
          Segment(MARKER_APP1, 1, <<225, 2, 3, 4, 5>>)}

MainSegments ==
    {ExifSegment(MinimalTiff(le)) : le \in BOOLEAN}
    \cup {DqtBytes, Segment(65472, 4, <<8, 1>>), <<>>, <<255>>, <<255, 218>>}

TailSegments ==
    {DqtBytes,
     ExifSegment(TiffHeader(TRUE, 8) \o Enc16(TRUE, 0) \o Enc32(TRUE, 0)) \o DqtBytes}

ScanFiles ==
    {SoiBytes \o a \o b \o c : a \in LeadSegments, b \in MainSegments, c \in TailSegments}
    \cup {<<>>, <<255>>, <<216, 255, 225, 0>>, <<255, 217, 255, 225>>,
          <<255, 216>>, <<255, 216, 255>>, <<137, 80, 78, 71>>}

\* --- the header reader's inputs: byte-order and version fields, truncation
HeaderSegment(bo, version, le) ==
    ExifSegment(bo \o version \o SubSeq(MinimalTiff(le), 5, Len(MinimalTiff(le))))

HeaderFiles ==
    {SoiBytes \o a \o HeaderSegment(bo, version, le) \o DqtBytes :
        a \in {<<>>, Segment(MARKER_APP0, 4, Pad(2))},
        bo \in {<<73, 73>>, <<77, 77>>, <<73, 77>>, <<77, 73>>, <<0, 0>>},
        version \in {<<42, 0>>, <<0, 42>>, <<43, 0>>, <<0, 43>>, <<42, 42>>},
        le \in BOOLEAN}
    \cup UNION {Prefixes(SoiBytes \o ExifSegment(MinimalTiff(le)), 4) : le \in BOOLEAN}

\* --- the directory parser's inputs.  Layout of the TIFF block: header (8),
\* 0th IFD, a data area, then the Exif, Interoperability, GPS and 1st IFD
\* blocks.  A mode says how the 0th IFD (or the Exif IFD) refers to a block:
\*   "none"  no pointer tag            "ok"     a Long pointer to the block
\*   "bad"   a pointer past the file   "over"   the block's tag count is 200
\*   "errptr" a pointer tag of count 0 "ascii"  a pointer tag of type Ascii
\*   "self"  a Long pointer back to the 0th IFD
DataLen == 8 * (MaxCount + 1)
DataBytes == [i \in 1..DataLen |-> IF i = 11 THEN 0 ELSE 16 + i]

PointerTag(le, id, mode, target) ==
    IF mode = "bad" THEN TagBytes(le, id, TYPE_LONG, 1, Enc32(le, 65000))
    ELSE IF mode = "errptr" THEN TagBytes(le, id, TYPE_LONG, 0, Enc32(le, target))
    ELSE IF mode = "ascii" THEN TagBytes(le, id, TYPE_ASCII, 4, Enc32(le, target))
    ELSE IF mode = "self" THEN TagBytes(le, id, TYPE_LONG, 1, Enc32(le, SIZEOF_TIFF_HEADER))
    ELSE TagBytes(le, id, TYPE_LONG, 1, Enc32(le, target))

SubIfd(le, mode, n, tags) ==
    Enc16(le, IF mode = "over" THEN 200 ELSE n) \o tags \o Enc32(le, 0)

\* the length of the Exif, Interoperability, GPS and 1st IFD blocks together
BlocksLen == 30 + 18 + 18 + 18

\* a tag under test: where is "raw" (the value field holds the bytes ABCD),
\* "data" (it holds the offset of byte `at` of the data area), "past" (it
\* holds the offset of the first byte behind the Exif segment) or "eof" (it
\* holds an offset past the end of the file)
ProbeTag(le, s, dataOff) ==
    TagBytes(le, s.id, s.type, s.count,
             IF s.where = "raw" THEN <<65, 66, 67, 68>>
             ELSE IF s.where = "data" THEN Enc32(le, dataOff + s.at)
             ELSE IF s.where = "past" THEN Enc32(le, dataOff + DataLen + BlocksLen)
             ELSE Enc32(le, 65000))

RECURSIVE ProbeTags(_, _, _)
ProbeTags(le, probes, dataOff) ==
    IF probes = <<>> THEN <<>>
    ELSE ProbeTag(le, Head(probes), dataOff) \o ProbeTags(le, Tail(probes), dataOff)

DirsTiff(le, ex, io, gp, th, probes) ==
    LET n0 == 1 + (IF ex = "none" THEN 0 ELSE 1) + (IF gp = "none" THEN 0 ELSE 1)
              + Len(probes)
        dataOff == 8 + 2 + 12 * n0 + 4
        exifOff == dataOff + DataLen
        ioOff == exifOff + 30
        gpsOff == ioOff + 18
        thOff == gpsOff + 18
        main == Enc16(le, n0)
                \o TagBytes(le, 274, TYPE_SHORT, 1, Enc16(le, 6) \o <<0, 0>>)
                \o (IF ex = "none" THEN <<>>
                    ELSE PointerTag(le, TAG_ExifIFDPointer, ex, exifOff))
                \o (IF gp = "none" THEN <<>>
                    ELSE PointerTag(le, TAG_GPSInfoIFDPointer, gp, gpsOff))
                \o ProbeTags(le, probes, dataOff)
                \o Enc32(le, IF th = "none" THEN 0
                             ELSE IF th = "bad" THEN 65000
                             ELSE IF th = "self" THEN SIZEOF_TIFF_HEADER ELSE thOff)
        exif == SubIfd(le, ex, 2,
                    (IF io = "none"
                     THEN TagBytes(le, 40961, TYPE_SHORT, 1, Enc16(le, 1) \o <<0, 0>>)
                     ELSE PointerTag(le, TAG_InteroperabilityIFDPointer, io, ioOff))
                    \o TagBytes(le, 36864, TYPE_UNDEFINED, 4, <<48, 50, 51, 48>>))
        interop == SubIfd(le, io, 1, TagBytes(le, 1, TYPE_ASCII, 4, <<82, 57, 56, 0>>))
        gps == SubIfd(le, gp, 1, TagBytes(le, 0, TYPE_BYTE, 4, <<2, 2, 0, 0>>))
        thumb == SubIfd(le, th, 1,
                    TagBytes(le, 259, TYPE_SHORT, 1, Enc16(le, 6) \o <<0, 0>>))
    IN  TiffHeader(le, 8) \o main \o DataBytes \o exif \o interop \o gps \o thumb

DirsFile(le, ex, io, gp, th, probes) ==
    SoiBytes \o ExifSegment(DirsTiff(le, ex, io, gp, th, probes)) \o DqtBytes

DirFiles ==
    {DirsFile(le, ex, io, gp, th, <<>>) :
        le \in BOOLEAN,
        ex \in {"none", "ok", "bad", "over", "errptr", "ascii"},
        io \in {"none", "ok", "bad"},
        gp \in {"none", "ok", "bad", "ascii"},
        th \in {"none", "ok", "over"}}

Probe(type, count, where, at) ==
    [id |-> 271, type |-> type, count |-> count, where |-> where, at |-> at]

TagFiles ==
    {DirsFile(le, "none", "none", "none", "none", <<Probe(type, count, where, 0)>>) :
        le \in BOOLEAN, type \in 0..13, count \in 0..MaxCount,
        where \in {"raw", "data", "past", "eof"}}

\* a tag under test followed by a sibling tag
SiblingFiles ==
    {DirsFile(le, "none", "none", "none", "none",
              <<Probe(p[1], p[2], where, 0), [Probe(s[1], s[2], "data", 8) EXCEPT !.id = 272]>>) :
        le \in BOOLEAN, where \in {"data", "eof"},
        p \in {<<TYPE_LONG, 2>>, <<TYPE_SHORT, 3>>, <<TYPE_RATIONAL, 1>>, <<TYPE_ASCII, 6>>,
               <<TYPE_ASCII, 4>>},
        s \in {<<TYPE_BYTE, 5>>, <<TYPE_SHORT, 3>>, <<TYPE_LONG, 2>>, <<TYPE_SHORT, 1>>,
               <<TYPE_ASCII, 5>>}}

\* the Exif segment at offsets around the size of the remover's buffer
BigFiles ==
    {SoiBytes \o Segment(MARKER_APP0, 2 + k, Pad(k)) \o ExifSegment(MinimalTiff(le))
        \o DqtBytes \o Pad(t) :
        k \in {SIZEOF_BUF - 6, SIZEOF_BUF - 5}, le \in {TRUE}, t \in {0, SIZEOF_BUF + 3}}

\* the 0th IFD at TIFF offset 8 + gap (one Orientation tag), with or without
\* a 1st IFD behind it
ShiftedTiff(le, gap, th) ==
    TiffHeader(le, 8 + gap) \o Pad(gap) \o Enc16(le, 1)
    \o TagBytes(le, 274, TYPE_SHORT, 1, Enc16(le, 6) \o <<0, 0>>)
    \o Enc32(le, IF th THEN 8 + gap + 18 ELSE 0)
    \o SubIfd(le, "ok", 1, TagBytes(le, 259, TYPE_SHORT, 1, Enc16(le, 6) \o <<0, 0>>))

ShiftedFiles ==
    {SoiBytes \o ExifSegment(ShiftedTiff(le, gap, th)) \o DqtBytes :
        le \in BOOLEAN, gap \in {0, 4, 12}, th \in BOOLEAN}

\* the declared length of the Exif segment of a file with one tag under test
ProbeSegmentLength ==
    Len(ExifSegment(DirsTiff(TRUE, "none", "none", "none", "none",
                             <<Probe(TYPE_ASCII, 1, "raw", 0)>>))) - 2

\* a tag whose value is about as long as the segment is declared to be, or
\* longer than the buffer of parseIFD, in the data area, with as many bytes
\* behind the segment as the value needs
LongValueFiles ==
    {DirsFile(le, "none", "none", "none", "none", <<Probe(type, count, "data", 0)>>)
        \o Pad(2 * ProbeSegmentLength) :
        le \in BOOLEAN,
        type \in {TYPE_ASCII, TYPE_UNDEFINED, TYPE_BYTE, TYPE_SHORT, TYPE_LONG, TYPE_RATIONAL},
        count \in ProbeSegmentLength - 1 .. ProbeSegmentLength}
    \cup {DirsFile(le, "none", "none", "none", "none", <<Probe(type, count, "data", 0)>>)
              \o Pad(2 * ProbeSegmentLength) :
              le \in BOOLEAN,
              type \in {TYPE_ASCII, TYPE_SHORT, TYPE_LONG, TYPE_SRATIONAL},
              count \in {SIZEOF_BUF + 1, (ProbeSegmentLength + 1) \div 2,
                         (ProbeSegmentLength + 3) \div 4, (ProbeSegmentLength + 7) \div 8}}

\* the file offset of the count field of the tag under test
ProbeCountOffset ==
    Len(SoiBytes) + 4 + Len(ExifId) + SIZEOF_TIFF_HEADER + 2 + SIZEOF_IFD_TAG + 4

\* a tag whose count has its most significant byte set to hi: counts of
\* 2^29, 2^30 and 2^31 and a little more, for which 2 * count, 4 * count or
\* 8 * count does not fit in 32 bits
HugeCountFiles ==
    {[DirsFile(le, "none", "none", "none", "none", <<Probe(type, count, "data", 0)>>)
         EXCEPT ![ProbeCountOffset + (IF le THEN 4 ELSE 1)] = hi] :
        le \in BOOLEAN,
        type \in {TYPE_ASCII, TYPE_BYTE, TYPE_SHORT, TYPE_LONG, TYPE_RATIONAL,
                  TYPE_SRATIONAL},
        count \in 0..2, hi \in {32, 64, 128}}

\* the declared length of a segment that holds values larger than buf
WideLength == 2 * SIZEOF_BUF + 3616

\* a segment of that length with one tag whose value lies in the data area
\* and runs on into the padding that fills the segment
WideFile(le, type, count) ==
    SoiBytes
    \o Segment(MARKER_APP1, WideLength,
               ExifId \o DirsTiff(le, "none", "none", "none", "none",
                                  <<Probe(type, count, "data", 0)>>)
               \o Pad(WideLength - 2 - Len(ExifId) - ProbeSegmentLength + 8))
    \o DqtBytes

\* values of about 8192 bytes and more
WideFiles ==
    {WideFile(le, p[1], p[2]) :
        le \in BOOLEAN,
        p \in {<<TYPE_LONG, 3000>>, <<TYPE_LONG, 2049>>, <<TYPE_LONG, 5000>>,
               <<TYPE_SHORT, 4097>>, <<TYPE_ASCII, SIZEOF_BUF + 1>>,
               <<TYPE_UNDEFINED, SIZEOF_BUF>>, <<TYPE_RATIONAL, 1500>>}}

\* pointer tags and a next-directory offset that lead back to the 0th IFD
LoopFiles ==
    {DirsFile(le, ex, io, gp, th, <<>>) :
        le \in BOOLEAN, ex \in {"ok", "self"}, io \in {"none", "self"},
        gp \in {"none", "self"}, th \in {"none", "self"}}

Files ==
    ScanFiles \cup HeaderFiles \cup DirFiles \cup TagFiles \cup SiblingFiles \cup BigFiles
    \cup ShiftedFiles \cup LongValueFiles \cup HugeCountFiles \cup WideFiles
    \cup LoopFiles

\* the values an uninitialised unsigned int may hold
UninitValues == {<<0, 0>>, <<43707, 52445>>}

(***************************************************************************)
(* The state machine                                                       *)
(***************************************************************************)
Init ==
    /\ hostLE \in BOOLEAN
    /\ op = "none"
    /\ pc = "idle"
    /\ src = <<>>
    /\ dstWritable = TRUE
    /\ dstState = "absent"
    /\ dst = <<>>
    /\ App1StartOffset = -1
    /\ App1Header = [i \in 1..SIZEOF_APP1_HEADER |-> 0]
    /\ sts = 1
    /\ ifdArray = <<>>
    /\ parsed = <<>>
    /\ result = -100
    /\ ret = NullPtr
    /\ held = <<>>
    /\ freeLog = <<>>
    /\ other = NoFile

\* --- createIfdTableArray ---------------------------------------------------

\* the call and fopen(JPEGFileName, "rb") (lines 224..239); f = NoFile
\* stands for a file that cannot be opened
CreateOpen(F) ==
    /\ pc = "idle"
    /\ UNCHANGED caller
    /\ \E f \in F \cup {NoFile} :
        /\ src' = f
        /\ sts' = IF f = NoFile THEN ERR_READ_FILE ELSE 1
        /\ pc' = IF f = NoFile THEN "DONE" ELSE "init"
    /\ op' = "create"
    /\ ifdArray' = <<>>
    /\ parsed' = <<>>
    /\ result' = -100
    /\ ret' = NullPtr
    /\ UNCHANGED <<hostLE, dstWritable, dstState, dst, App1StartOffset, App1Header>>

\* the assignments made by "sts = init(fp); if (sts <= 0) goto DONE;"
InitResult(r, good) ==
    /\ sts' = r.sts
    /\ App1StartOffset' = r.off
    /\ App1Header' = r.hdr
    /\ pc' = IF r.sts <= 0 THEN "DONE" ELSE good

\* sts = init(fp) (lines 240..243)
CreateInit ==
    /\ pc = "init" /\ op = "create"
    /\ UNCHANGED caller
    /\ InitResult(init(src, App1StartOffset, App1Header), "ifd0")
    /\ UNCHANGED <<hostLE, op, src, dstWritable, dstState, dst, ifdArray, parsed,
                   result, ret>>

\* one parseIFD call of createIfdTableArray and what is done with its
\* result: append and go to `good`, or record the error and go to `bad`
TakeResult(r, good, bad) ==
    IF r.ub
    THEN /\ pc' = "undefined"
         /\ UNCHANGED <<sts, ifdArray>>
    ELSE IF r.ifd = NULL
    THEN /\ sts' = ERR_INVALID_IFD
         /\ pc' = bad
         /\ UNCHANGED ifdArray
    ELSE /\ ifdArray' = Append(ifdArray, r.ifd)
         /\ pc' = good
         /\ UNCHANGED sts

ParseStep(ifdType, ifdOffset, good, bad) ==
    /\ parsed' = Append(parsed, ifdType)
    /\ \E val0 \in UninitValues :
        TakeResult(parseIFD(src, App1StartOffset, App1Header, ifdOffset, ifdType, val0),
                   good, bad)

\* a pointer tag is looked up in ifd and, when found without error, the IFD
\* it points to is parsed (lines 262..265, 268..271, 290..293).  Reading
\* numData[0] of a tag without numeric data dereferences a null pointer.
FollowTag(tag, ifdType, good, skip) ==
    IF tag = NULL \/ tag.error # 0
    THEN /\ pc' = skip
         /\ UNCHANGED <<sts, ifdArray, parsed>>
    ELSE IF tag.numData.null
    THEN /\ pc' = "undefined"
         /\ UNCHANGED <<sts, ifdArray, parsed>>
    ELSE ParseStep(ifdType, tag.numData.at[1], good, skip)

FollowPointer(ifd, tagId, ifdType, good, skip) ==
    FollowTag(getTagNodePtrFromIfd(ifd, tagId), ifdType, good, skip)

\* the 0th IFD (lines 250..259)
ParseMain ==
    /\ pc = "ifd0" /\ op = "create"
    /\ UNCHANGED caller
    /\ ParseStep(IFD_0TH, HdrIfd0thOffset(App1Header), "exif", "DONE")
    /\ UNCHANGED <<hostLE, op, src, dstWritable, dstState, dst, App1StartOffset,
                   App1Header, result, ret>>

\* the Exif IFD (lines 261..267, 281..287)
ParseExif ==
    /\ pc = "exif" /\ op = "create"
    /\ UNCHANGED caller
    /\ FollowPointer(ifdArray[1], TAG_ExifIFDPointer, IFD_EXIF, "io", "gps")
    /\ UNCHANGED <<hostLE, op, src, dstWritable, dstState, dst, App1StartOffset,
                   App1Header, result, ret>>

\* the Interoperability IFD (lines 268..280); ifd_exif is the table just added
ParseInterop ==
    /\ pc = "io" /\ op = "create"
    /\ UNCHANGED caller
    /\ FollowPointer(ifdArray[Len(ifdArray)], TAG_InteroperabilityIFDPointer, IFD_IO,
                     "gps", "gps")
    /\ UNCHANGED <<hostLE, op, src, dstWritable, dstState, dst, App1StartOffset,
                   App1Header, result, ret>>

\* the GPS IFD (lines 289..302)
ParseGPS ==
    /\ pc = "gps" /\ op = "create"
    /\ UNCHANGED caller
    /\ FollowPointer(ifdArray[1], TAG_GPSInfoIFDPointer, IFD_GPS, "1st", "1st")
    /\ UNCHANGED <<hostLE, op, src, dstWritable, dstState, dst, App1StartOffset,
                   App1Header, result, ret>>

\* the 1st IFD (lines 304..316)
Parse1st ==
    /\ pc = "1st" /\ op = "create"
    /\ UNCHANGED caller
    /\ IF ifdArray[1].nextIfdOffset # U32(0)
       THEN ParseStep(IFD_1ST, ifdArray[1].nextIfdOffset, "DONE", "DONE")
       ELSE /\ pc' = "DONE"
            /\ UNCHANGED <<sts, ifdArray, parsed>>
    /\ UNCHANGED <<hostLE, op, src, dstWritable, dstState, dst, App1StartOffset,
                   App1Header, result, ret>>

\* CreateDone counting the NULL element that ends the array
CreateDoneCountingTerminator ==
    /\ pc = "DONE" /\ op = "create"
    /\ UNCHANGED caller
    /\ result' = IF sts <= 0 THEN sts ELSE Len(ifdArray) + 1
    /\ ret' = IF Len(ifdArray) > 0 THEN Ptr(ifdArray) ELSE NullPtr
    /\ pc' = "returned"
    /\ UNCHANGED <<hostLE, op, src, dstWritable, dstState, dst, App1StartOffset,
                   App1Header, sts, ifdArray, parsed>>

\* DONE: (lines 318..331)
CreateDone ==
    /\ pc = "DONE" /\ op = "create"
    /\ UNCHANGED caller
    /\ result' = IF sts <= 0 THEN sts ELSE Len(ifdArray)
    /\ ret' = IF Len(ifdArray) > 0 THEN Ptr(ifdArray) ELSE NullPtr
    /\ pc' = "returned"
    /\ UNCHANGED <<hostLE, op, src, dstWritable, dstState, dst, App1StartOffset,
                   App1Header, sts, ifdArray, parsed>>

\* --- removeExifSegmentFromJPEGFile ----------------------------------------

\* the call and fopen(inJPEGFileName, "rb") (lines 128..137)
RemoveOpen(F) ==
    /\ pc = "idle"
    /\ UNCHANGED caller
    /\ \E f \in F \cup {NoFile} :
        /\ src' = f
        /\ sts' = IF f = NoFile THEN ERR_READ_FILE ELSE 1
        /\ pc' = IF f = NoFile THEN "DONE" ELSE "init"
    /\ dstWritable' \in BOOLEAN
    /\ op' = "remove"
    /\ dstState' = "absent"
    /\ dst' = <<>>
    /\ result' = -100
    /\ UNCHANGED <<hostLE, App1StartOffset, App1Header, ifdArray, parsed, ret>>

\* RemoveInit going on to open the destination file whatever init returned
RemoveInitThenOpen ==
    /\ pc = "init" /\ op = "remove"
    /\ UNCHANGED caller
    /\ sts' = init(src, App1StartOffset, App1Header).sts
    /\ App1StartOffset' = init(src, App1StartOffset, App1Header).off
    /\ App1Header' = init(src, App1StartOffset, App1Header).hdr
    /\ pc' = "open_dst"
    /\ UNCHANGED <<hostLE, op, src, dstWritable, dstState, dst, ifdArray, parsed,
                   result, ret>>

\* sts = init(fpr) (lines 138..141)
RemoveInit ==
    /\ pc = "init" /\ op = "remove"
    /\ UNCHANGED caller
    /\ InitResult(init(src, App1StartOffset, App1Header), "open_dst")
    /\ UNCHANGED <<hostLE, op, src, dstWritable, dstState, dst, ifdArray, parsed,
                   result, ret>>

\* fpw = fopen(outJPGEFileName, "wb") (lines 142..146)
RemoveOpenDst ==
    /\ pc = "open_dst" /\ op = "remove"
    /\ UNCHANGED caller
    /\ IF dstWritable
       THEN /\ dstState' = "created"
            /\ dst' = <<>>
            /\ pc' = "copy_head"
            /\ UNCHANGED sts
       ELSE /\ sts' = ERR_READ_FILE
            /\ pc' = "DONE"
            /\ UNCHANGED <<dstState, dst>>
    /\ UNCHANGED <<hostLE, op, src, dstWritable, App1StartOffset, App1Header,
                   ifdArray, parsed, result, ret>>

\* the bytes the loop of lines 155..158 writes: one fread and one fwrite of a
\* single byte per iteration (the segment was found at off, so src has them)
CopyByteWise(f, off) == [i \in 1..off |-> f[i]]

\* the bytes lines 160..167 write: off bytes read in one fread
CopyBlock(f, off) == ReadAt(f, 0, off)

\* copy the data in front of the Exif segment (lines 147..171); the buffer is
\* buf, or malloc(App1StartOffset) when that is larger, which may fail
RemoveCopyHead ==
    /\ pc = "copy_head" /\ op = "remove"
    /\ UNCHANGED caller
    /\ \E mallocOk \in BOOLEAN :
        LET heap == App1StartOffset > SIZEOF_BUF
        IN  IF heap /\ ~mallocOk
            THEN /\ dst' = dst \o CopyByteWise(src, App1StartOffset)
                 /\ pc' = "copy_tail"
                 /\ UNCHANGED sts
            ELSE IF FreadLen(src, 0, App1StartOffset) < App1StartOffset
            THEN /\ sts' = ERR_READ_FILE
                 /\ pc' = "DONE"
                 /\ UNCHANGED dst
            ELSE /\ dst' = dst \o CopyBlock(src, App1StartOffset)
                 /\ pc' = "copy_tail"
                 /\ UNCHANGED sts
    /\ UNCHANGED <<hostLE, op, src, dstWritable, dstState, App1StartOffset,
                   App1Header, ifdArray, parsed, result, ret>>

\* SegmentEnd without the two bytes of the marker
SegmentEndWithoutMarker(off, h) == off + HdrLength(h)

\* ofs = App1StartOffset + sizeof(App1Header.marker) + App1Header.length
SegmentEnd(off, h) == off + 2 + HdrLength(h)

\* the read & write loop (lines 179..189) from file position pos
RECURSIVE CopyChunks(_, _)
CopyChunks(f, pos) ==
    LET readLen == FreadLen(f, pos, SIZEOF_BUF)
    IN  IF readLen <= 0 THEN <<>>
        ELSE ReadAt(f, pos, readLen) \o CopyChunks(f, pos + readLen)

\* seek to the end of the Exif segment and copy the rest (lines 172..189)
RemoveCopyTail ==
    /\ pc = "copy_tail" /\ op = "remove"
    /\ UNCHANGED caller
    /\ dst' = dst \o CopyChunks(src, SegmentEnd(App1StartOffset, App1Header))
    /\ pc' = "DONE"
    /\ UNCHANGED <<hostLE, op, src, dstWritable, dstState, App1StartOffset,
                   App1Header, sts, ifdArray, parsed, result, ret>>

\* DONE: (lines 190..197)
RemoveDone ==
    /\ pc = "DONE" /\ op = "remove"
    /\ UNCHANGED caller
    /\ result' = sts
    /\ pc' = "returned"
    /\ UNCHANGED <<hostLE, op, src, dstWritable, dstState, dst, App1StartOffset,
                   App1Header, sts, ifdArray, parsed, ret>>

CreateCall == CreateOpen(Files)
RemoveCall == RemoveOpen(ScanFiles \cup HeaderFiles \cup BigFiles)

Next ==
    \/ CreateCall
    \/ CreateInit
    \/ ParseMain
    \/ ParseExif
    \/ ParseInterop
    \/ ParseGPS
    \/ Parse1st
    \/ CreateDone
    \/ RemoveCall
    \/ RemoveInit
    \/ RemoveOpenDst
    \/ RemoveCopyHead
    \/ RemoveCopyTail
    \/ RemoveDone

Spec == Init /\ [][Next]_vars

(***************************************************************************)
(* The query functions and the release of the result set                   *)
(*                                                                         *)
(* A heap block is named by what it holds and where it hangs: the blocks   *)
(* of TagNode j of table i of the result set are Block(.., i, j), those of *)
(* the n-th TagNode made by duplicateTagNode are Block(.., 0, n).          *)
(***************************************************************************)
Block(kind, i, j) == [kind |-> kind, i |-> i, j |-> j]

\* free() has been called on block b
IsFreed(b) == \E k \in 1..Len(freeLog) : freeLog[k] = b

getIfdType(ifd) == ifd.ifdType

\* the index in ifd of the tag getTagNodePtrFromIfd returns, 0 for none
TagIndex(ifd, tagId) ==
    LET hits == {j \in 1..Len(ifd.tags) : ifd.tags[j].tagId = tagId}
    IN  IF hits = {} THEN 0 ELSE CHOOSE j \in hits : \A k \in hits : j <= k

\* the index of the table at which the loop of getTagInfo stops (lines
\* 543..551): the first one of that type, 0 when the loop runs to the end
FirstOfType(ifds, ifdType) ==
    LET hits == {i \in 1..Len(ifds) : getIfdType(ifds[i]) = ifdType}
    IN  IF hits = {} THEN 0 ELSE CHOOSE i \in hits : \A k \in hits : i <= k

\* the number of array elements duplicateTagNode copies
DupLen(node) == IF IsRational(node.type) THEN 2 * node.count[2] ELSE node.count[2]

\* the copy duplicateTagNode makes of a node (lines 876..895)
DuplicateAlways(node) ==
    [tagId |-> node.tagId, type |-> node.type, count |-> node.count,
     numData |-> IF ~node.numData.null
                 THEN Ptr(SubSeq(node.numData.at, 1, DupLen(node))) ELSE NullPtr,
     byteData |-> IF node.numData.null /\ ~node.byteData.null
                  THEN Ptr(SubSeq(node.byteData.at, 1, node.count[2])) ELSE NullPtr,
     error |-> node.error]

\* duplicateTagNode of a node that is there: count is unsigned, so
\* "src->count <= 0" is "src->count == 0"
DuplicateCounted(node) ==
    IF node.count = U32(0) THEN NULL ELSE DuplicateAlways(node)

\* the TagNode duplicateTagNode builds, or NULL
duplicateTagNode(node) ==
    IF node = NULL THEN NULL ELSE DuplicateCounted(node)

\* getTagInfo(ifdArray, ifdType, tagId): NULL or the copy made of the tag
getTagInfo(arr, ifdType, tagId) ==
    IF arr.null THEN NULL
    ELSE IF FirstOfType(arr.at, ifdType) = 0 THEN NULL
    ELSE duplicateTagNode(getTagNodePtrFromIfd(arr.at[FirstOfType(arr.at, ifdType)], tagId))

\* getTagInfoFromIfd(ifd, tagId): NULL or the tag node of ifd itself
getTagInfoFromIfd(ifd, tagId) ==
    IF ifd = NULL THEN NULL ELSE getTagNodePtrFromIfd(ifd, tagId)

\* the blocks freeTagNode passes to free() for the node at (i, j), in order
freeTagNode(node, i, j) ==
    (IF ~node.numData.null THEN <<Block("numData", i, j)>> ELSE <<>>)
    \o (IF ~node.byteData.null THEN <<Block("byteData", i, j)>> ELSE <<>>)
    \o <<Block("TagNode", i, j)>>

\* the blocks of the tags j, j-1 .. 1 of table i (the loop of lines 929..933)
RECURSIVE FreeTagsDownFrom(_, _, _)
FreeTagsDownFrom(ifd, i, j) ==
    IF j = 0 THEN <<>>
    ELSE freeTagNode(ifd.tags[j], i, j) \o FreeTagsDownFrom(ifd, i, j - 1)

\* the blocks freeIfdTable passes to free() for table i, in order
freeIfdTable(ifd, i) ==
    <<Block("IfdTable", i, 0)>> \o FreeTagsDownFrom(ifd, i, Len(ifd.tags))

\* the blocks freeIfdTableArray passes to free() for the tables i .. of ifds
RECURSIVE FreeTablesFrom(_, _)
FreeTablesFrom(ifds, i) ==
    IF i > Len(ifds) THEN <<>>
    ELSE freeIfdTable(ifds[i], i) \o FreeTablesFrom(ifds, i + 1)

freeIfdTableArray(ifds) == FreeTablesFrom(ifds, 1) \o <<Block("ifdArray", 0, 0)>>

\* some block of the sequence blocks has been freed already
AnyFreed(blocks) == \E k \in 1..Len(blocks) : IsFreed(blocks[k])

\* the tag nodes of table i that a search for tagId reads: up to the match,
\* or all of them
NodesSearched(ifd, i, tagId) ==
    [j \in 1..(IF TagIndex(ifd, tagId) = 0 THEN Len(ifd.tags) ELSE TagIndex(ifd, tagId))
        |-> Block("TagNode", i, j)]

MaxHeld == 2     \* tags the caller asks for
QueryTypes == {IFD_0TH, IFD_EXIF, IFD_GPS}
QueryIds == {271, 274, TAG_ExifIFDPointer, 36864}

\* the files whose result sets are queried: a 0th IFD with a tag 0x010F of
\* several types and counts, readable or not, with or without an Exif IFD
QueryFiles ==
    {DirsFile(le, ex, "none", "none", "none", <<Probe(type, count, where, 0)>>) :
        le \in BOOLEAN, ex \in {"none", "ok"},
        type \in {TYPE_ASCII, TYPE_SHORT, TYPE_RATIONAL},
        count \in {0, 1, MaxCount}, where \in {"data", "eof"}}

\* what the caller holds for one query: the function asked, its arguments,
\* the place (i, j) of the node it got, the node, and whether the caller
\* has passed it to freeTagInfo
Handle(by, ifdType, tagId, i, j, node) ==
    [by |-> by, ifdType |-> ifdType, tagId |-> tagId, at |-> <<i, j>>,
     node |-> node, released |-> FALSE]

\* the caller keeps the tag r when there is one
Keep(by, ifdType, tagId, i, j, r) ==
    IF r = NULL THEN UNCHANGED held
    ELSE held' = Append(held, Handle(by, ifdType, tagId, i, j, r))

\* the number of TagNodes duplicateTagNode has made
Duplicates == Cardinality({n \in 1..Len(held) : held[n].by = "getTagInfo"})

\* a result set has been returned and not yet released
HasResultSet == pc = "returned" /\ op = "create" /\ ~ret.null

\* tag = getTagInfo(ifdArray, ifdType, tagId); reading a freed TagNode is
\* undefined
CallGetTagInfo ==
    /\ HasResultSet
    /\ Len(held) < MaxHeld
    /\ \E ifdType \in QueryTypes, tagId \in QueryIds :
        IF /\ FirstOfType(ret.at, ifdType) # 0
           /\ AnyFreed(NodesSearched(ret.at[FirstOfType(ret.at, ifdType)],
                                     FirstOfType(ret.at, ifdType), tagId))
        THEN pc' = "undefined" /\ UNCHANGED held
        ELSE /\ Keep("getTagInfo", ifdType, tagId, 0, Duplicates + 1,
                     getTagInfo(ret, ifdType, tagId))
             /\ UNCHANGED pc
    /\ UNCHANGED <<hostLE, op, src, dstWritable, dstState, dst, App1StartOffset,
                   App1Header, sts, ifdArray, parsed, result, ret, freeLog, other>>

\* tag = getTagInfoFromIfd(ifdArray[i], tagId)
CallGetTagInfoFromIfd ==
    /\ HasResultSet
    /\ Len(held) < MaxHeld
    /\ \E i \in 1..Len(ret.at), tagId \in QueryIds :
        IF AnyFreed(NodesSearched(ret.at[i], i, tagId))
        THEN pc' = "undefined" /\ UNCHANGED held
        ELSE /\ Keep("getTagInfoFromIfd", getIfdType(ret.at[i]), tagId,
                     i, TagIndex(ret.at[i], tagId), getTagInfoFromIfd(ret.at[i], tagId))
             /\ UNCHANGED pc
    /\ UNCHANGED <<hostLE, op, src, dstWritable, dstState, dst, App1StartOffset,
                   App1Header, sts, ifdArray, parsed, result, ret, freeLog, other>>

\* free() on each block of blocks; freeing a block twice is undefined
FreeBlocks(blocks, done) ==
    IF AnyFreed(blocks)
    THEN pc' = "undefined" /\ UNCHANGED freeLog
    ELSE pc' = done /\ freeLog' = freeLog \o blocks

\* freeTagInfo(tag) for a tag the caller holds
CallFreeTagInfo ==
    /\ HasResultSet
    /\ \E n \in 1..Len(held) :
        /\ ~held[n].released
        /\ held' = [held EXCEPT ![n].released = TRUE]
        /\ FreeBlocks(freeTagNode(held[n].node, held[n].at[1], held[n].at[2]), pc)
    /\ UNCHANGED <<hostLE, op, src, dstWritable, dstState, dst, App1StartOffset,
                   App1Header, sts, ifdArray, parsed, result, ret, other>>

\* freeIfdTableArray(ifdArray), once the caller has released its tags
CallFreeIfdTableArray ==
    /\ HasResultSet
    /\ \A n \in 1..Len(held) : held[n].released
    /\ FreeBlocks(freeIfdTableArray(ret.at), "freed")
    /\ UNCHANGED <<hostLE, op, src, dstWritable, dstState, dst, App1StartOffset,
                   App1Header, sts, ifdArray, parsed, result, ret, held, other>>

QueryCall == CreateOpen(QueryFiles)

NextQuery ==
    \/ QueryCall
    \/ CreateInit
    \/ ParseMain
    \/ ParseExif
    \/ ParseInterop
    \/ ParseGPS
    \/ Parse1st
    \/ CreateDone
    \/ CallGetTagInfo
    \/ CallGetTagInfoFromIfd
    \/ CallFreeTagInfo
    \/ CallFreeIfdTableArray

SpecQuery == Init /\ [][NextQuery]_vars

(***************************************************************************)
(* createIfdTableArray as a function of the file, of the static variables  *)
(* it finds and of the initial contents vs[1] .. vs[5] of the local val    *)
(* of its five parseIFD calls                                              *)
(***************************************************************************)
\* the locals sts and ifdArray of a call, and whether it has run into
\* undefined behaviour
CallState(s, ifds, ub) == [sts |-> s, ifds |-> ifds, ub |-> ub]

\* what is done with the value r of a parseIFD call (as TakeResult)
Taken(c, r) ==
    IF r.ub THEN [c EXCEPT !.ub = TRUE]
    ELSE IF r.ifd = NULL THEN [c EXCEPT !.sts = ERR_INVALID_IFD]
    ELSE [c EXCEPT !.ifds = Append(c.ifds, r.ifd)]

\* a pointer tag is followed (as FollowTag)
Followed(f, off, h, c, tag, ifdType, v) ==
    IF c.ub THEN c
    ELSE IF tag = NULL \/ tag.error # 0 THEN c
    ELSE IF tag.numData.null THEN [c EXCEPT !.ub = TRUE]
    ELSE Taken(c, parseIFD(f, off, h, tag.numData.at[1], ifdType, v))

\* lines 304..316
RunFrom1st(f, off, h, c, vs) ==
    IF c.ub \/ c.ifds[1].nextIfdOffset = U32(0) THEN c
    ELSE Taken(c, parseIFD(f, off, h, c.ifds[1].nextIfdOffset, IFD_1ST, vs[5]))

\* lines 289..316
RunFromGPS(f, off, h, c, vs) ==
    RunFrom1st(f, off, h,
               Followed(f, off, h, c,
                        getTagNodePtrFromIfd(c.ifds[1], TAG_GPSInfoIFDPointer),
                        IFD_GPS, vs[4]),
               vs)

\* lines 266..316; n is the number of tables before the Exif IFD was tried
RunFromInterop(f, off, h, c, n, vs) ==
    RunFromGPS(f, off, h,
               IF c.ub \/ Len(c.ifds) = n THEN c
               ELSE Followed(f, off, h, c,
                             getTagNodePtrFromIfd(c.ifds[Len(c.ifds)],
                                                  TAG_InteroperabilityIFDPointer),
                             IFD_IO, vs[3]),
               vs)

\* lines 261..316
RunFromExif(f, off, h, c, vs) ==
    RunFromInterop(f, off, h,
                   Followed(f, off, h, c,
                            getTagNodePtrFromIfd(c.ifds[1], TAG_ExifIFDPointer),
                            IFD_EXIF, vs[2]),
                   Len(c.ifds), vs)

\* lines 252..316, c being the state after the parse of the 0th IFD
RunFromMain(f, off, h, c, vs) ==
    IF c.ub \/ c.ifds = <<>> THEN c ELSE RunFromExif(f, off, h, c, vs)

\* what a call leaves to its caller: *result and the array returned, or
\* nothing that can be relied on after undefined behaviour
Outcome(c) ==
    IF c.ub THEN [ub |-> TRUE, result |-> 0, ret |-> NullPtr]
    ELSE [ub |-> FALSE,
          result |-> IF c.sts <= 0 THEN c.sts ELSE Len(c.ifds),
          ret |-> IF Len(c.ifds) > 0 THEN Ptr(c.ifds) ELSE NullPtr]

\* lines 240..331, i being the value of init and the static variables it left
RunInit(f, i, vs) ==
    IF i.sts <= 0 THEN Outcome(CallState(i.sts, <<>>, FALSE))
    ELSE Outcome(RunFromMain(f, i.off, i.hdr,
                             Taken(CallState(1, <<>>, FALSE),
                                   parseIFD(f, i.off, i.hdr, HdrIfd0thOffset(i.hdr),
                                            IFD_0TH, vs[1])),
                             vs))

createIfdTableArray(f, off0, h0, vs) ==
    IF f = NoFile THEN Outcome(CallState(ERR_READ_FILE, <<>>, FALSE))
    ELSE RunInit(f, init(f, off0, h0), vs)

(***************************************************************************)
(* Calls one after the other in one process                                *)
(***************************************************************************)
\* a file whose 0th IFD has one tag, a Byte array of 5 elements stored
\* behind the IFD: the first value parseIFD copies into its local val
ArrayFirstFile(le) ==
    SoiBytes
    \o ExifSegment(TiffHeader(le, 8) \o Enc16(le, 1)
                   \o TagBytes(le, 271, TYPE_BYTE, 5, Enc32(le, 26)) \o Enc32(le, 0)
                   \o <<17, 18, 19, 20, 21>>)
    \o DqtBytes

\* a valid file (II or MM, at offset 2 or behind an APP0 segment), files
\* with a multi-valued tag, a file without Exif segment, corrupt files
SeqFiles ==
    {SoiBytes \o a \o ExifSegment(MinimalTiff(le)) \o DqtBytes :
        a \in {<<>>, Segment(MARKER_APP0, 4, Pad(2))}, le \in BOOLEAN}
    \cup {DirsFile(le, "ok", "none", "none", "none", <<Probe(TYPE_BYTE, MaxCount, "data", 0)>>) :
              le \in BOOLEAN}
    \cup {ArrayFirstFile(le) : le \in BOOLEAN}
    \cup {DirsFile(TRUE, "over", "none", "ok", "none", <<>>),
          SoiBytes \o DqtBytes,
          SoiBytes \o HeaderSegment(<<73, 73>>, <<0, 42>>, TRUE) \o DqtBytes,
          SubSeq(SoiBytes \o ExifSegment(MinimalTiff(FALSE)), 1, 12),
          SubSeq(SoiBytes \o ExifSegment(MinimalTiff(TRUE)), 1, 30),
          <<137, 80, 78, 71>>}

\* the function has returned to its caller, which goes on to another call
NextCall ==
    /\ pc = "returned"
    /\ pc' = "idle"
    /\ UNCHANGED <<hostLE, op, src, dstWritable, dstState, dst, App1StartOffset,
                   App1Header, sts, ifdArray, parsed, result, ret, held, freeLog, other>>

SeqCreateCall == CreateOpen(SeqFiles)
SeqRemoveCall == RemoveOpen(SeqFiles)

NextSeq ==
    \/ SeqCreateCall
    \/ CreateInit
    \/ ParseMain
    \/ ParseExif
    \/ ParseInterop
    \/ ParseGPS
    \/ Parse1st
    \/ CreateDone
    \/ SeqRemoveCall
    \/ RemoveInit
    \/ RemoveOpenDst
    \/ RemoveCopyHead
    \/ RemoveCopyTail
    \/ RemoveDone
    \/ NextCall

SpecSeq == Init /\ [][NextSeq]_vars

(***************************************************************************)
(* Two createIfdTableArray calls at the same time.  The call that is       *)
(* followed step by step is the one of the variables op, pc, src, ...; of  *)
(* the other call, on the file `other`, the model has the one step that    *)
(* writes memory both calls use: its init, which stores into               *)
(* App1StartOffset and App1Header.  What holds for the call followed holds *)
(* for the other one by symmetry.                                          *)
(***************************************************************************)
ParFiles ==
    {SoiBytes \o a \o ExifSegment(MinimalTiff(le)) \o DqtBytes :
        a \in {<<>>, Segment(MARKER_APP0, 4, Pad(2))}, le \in BOOLEAN}
    \cup {DirsFile(le, "ok", "none", "ok", "ok", <<Probe(TYPE_SHORT, 2, "raw", 0)>>) :
              le \in BOOLEAN}
    \cup {SoiBytes \o DqtBytes,
          SoiBytes \o HeaderSegment(<<77, 73>>, <<42, 0>>, TRUE) \o DqtBytes}

\* the assignments init makes to the static variables
OtherInitResult(r) ==
    /\ App1StartOffset' = r.off
    /\ App1Header' = r.hdr

\* sts = init(fp) of the other call, between two steps of the call followed
OtherInit ==
    /\ op = "create" /\ pc \in {"init", "ifd0", "exif", "io", "gps", "1st"}
    /\ other = NoFile
    /\ \E f \in ParFiles :
        /\ f # src
        /\ other' = f
        /\ OtherInitResult(init(f, App1StartOffset, App1Header))
    /\ UNCHANGED <<hostLE, op, pc, src, dstWritable, dstState, dst, sts, ifdArray,
                   parsed, result, ret, held, freeLog>>

ParCall == CreateOpen(ParFiles)

NextPar ==
    \/ ParCall
    \/ CreateInit
    \/ ParseMain
    \/ ParseExif
    \/ ParseInterop
    \/ ParseGPS
    \/ Parse1st
    \/ CreateDone
    \/ OtherInit

SpecPar == Init /\ [][NextPar]_vars

(***************************************************************************)
(* What the JPEG and TIFF layouts say about the bytes of a file f, stated  *)
(* on the bytes themselves                                                 *)
(***************************************************************************)
\* the big-endian 16-bit number at offset p of f
BE16At(f, p) == 256 * f[p + 1] + f[p + 2]

StartsWithSOI(f) == Len(f) >= 2 /\ BE16At(f, 0) = MARKER_SOI

\* the 5 bytes after the length field of the segment at p are "Exif\0"
HasExifId(f, p) ==
    /\ p + 4 + EXIF_ID_STR_LEN <= Len(f)
    /\ SubSeq(f, p + 5, p + 4 + EXIF_ID_STR_LEN) = EXIF_ID_STR

\* The offset of the first APP1 segment with an Exif payload in the run of
\* APPn segments, each of length >= 2, that starts at offset p; -1 when
\* the run ends before such a segment.
RECURSIVE FirstExifSegment(_, _)
FirstExifSegment(f, p) ==
    IF p + 4 > Len(f) THEN -1
    ELSE IF BE16At(f, p) \notin MARKER_APP0..MARKER_APP15 \/ BE16At(f, p + 2) < 2 THEN -1
    ELSE IF BE16At(f, p) = MARKER_APP1 /\ BE16At(f, p + 2) >= 2 + EXIF_ID_STR_LEN
            /\ HasExifId(f, p)
    THEN p
    ELSE FirstExifSegment(f, p + 2 + BE16At(f, p + 2))

\* Walking the segments from offset p by their length fields, a marker
\* outside the APPn range is met before an Exif APP1 segment and before
\* the bytes of the file run out.
RECURSIVE EndsAtOtherMarker(_, _)
EndsAtOtherMarker(f, p) ==
    IF p + 2 > Len(f) THEN FALSE
    ELSE IF BE16At(f, p) \notin MARKER_APP0..MARKER_APP15 THEN TRUE
    ELSE IF p + 4 > Len(f) THEN FALSE
    ELSE IF BE16At(f, p) = MARKER_APP1
            /\ (p + 4 + EXIF_ID_STR_LEN > Len(f) \/ HasExifId(f, p))
    THEN FALSE
    ELSE EndsAtOtherMarker(f, p + 2 + BE16At(f, p + 2))

\* a call has got past init
PastInit == pc \notin {"idle", "init"}

(***************************************************************************)
(* C1                                                                      *)
(***************************************************************************)
\* C1: for every file that begins with SOI followed by a run of APPn
\* segments with length fields >= 2, one of which is an APP1 segment whose
\* payload begins with "Exif\0", getApp1StartOffset returns the offset of
\* the 0xFFE1 marker of the first such segment, on little-endian and
\* big-endian hosts and for II and MM TIFF headers alike.
C1_ScannerFindsFirstExifSegment ==
    (PastInit /\ StartsWithSOI(src) /\ FirstExifSegment(src, 2) >= 0) =>
        /\ getApp1StartOffset(src) = FirstExifSegment(src, 2)
        /\ App1StartOffset = FirstExifSegment(src, 2)

\* a big-endian host has found the Exif segment of a file whose TIFF header
\* says II, behind another APP1 segment
C1_Witness ==
    /\ pc = "returned" /\ ~hostLE /\ StartsWithSOI(src)
    /\ Len(src) >= 4 /\ BE16At(src, 2) = MARKER_APP1
    /\ FirstExifSegment(src, 2) > 2
    /\ App1StartOffset = FirstExifSegment(src, 2)
    /\ Len(src) >= App1StartOffset + SIZEOF_APP1_HEADER
    /\ src[App1StartOffset + 11] = 73

(***************************************************************************)
(* C2                                                                      *)
(***************************************************************************)
\* C2: when the marker after SOI is DQT, or a marker outside 0xFFE0..0xFFEF
\* is reached before an Exif APP1 segment, the scanner returns 0 and
\* createIfdTableArray sets *result to 0 and returns NULL without having
\* parsed a directory.
C2_NoExifSegmentGivesZeroAndNull ==
    (op = "create" /\ pc = "returned" /\ StartsWithSOI(src)
     /\ EndsAtOtherMarker(src, 2)) =>
        /\ getApp1StartOffset(src) = 0
        /\ result = 0
        /\ ret.null
        /\ parsed = <<>>

\* createIfdTableArray has returned for a file whose scan stopped at a
\* marker outside the APPn range behind an APP1 segment that is not Exif
C2_Witness ==
    /\ op = "create" /\ pc = "returned" /\ StartsWithSOI(src)
    /\ Len(src) >= 4 /\ BE16At(src, 2) = MARKER_APP1
    /\ EndsAtOtherMarker(src, 2)
    /\ result = 0 /\ ret.null

(***************************************************************************)
(* C3                                                                      *)
(***************************************************************************)
\* the byte-order field of the segment at off says II / MM
HeaderSaysII(f, off) == f[off + 11] = 73 /\ f[off + 12] = 73
HeaderSaysMM(f, off) == f[off + 11] = 77 /\ f[off + 12] = 77

\* the magic field, read in the declared byte order, is 0x002A
MagicIs42(f, off) ==
    IF HeaderSaysII(f, off) THEN f[off + 13] + 256 * f[off + 14] = TIFF_VERSION
    ELSE 256 * f[off + 13] + f[off + 14] = TIFF_VERSION

\* one of the three reasons for rejecting the header of the segment at off
HeaderRejected(f, off) ==
    \/ off + SIZEOF_APP1_HEADER > Len(f)
    \/ ~(HeaderSaysII(f, off) \/ HeaderSaysMM(f, off))
    \/ ~MagicIs42(f, off)

\* C3: readApp1SegmentHeader rejects the segment located at App1StartOffset
\* exactly when fewer than 18 bytes can be read there, or the byte-order
\* field is neither II nor MM, or the magic field is not 0x002A in the
\* declared byte order; on rejection the status is ERR_INVALID_APP1HEADER,
\* and otherwise the header is accepted.
C3_HeaderRejectedExactlyWhenInvalid ==
    (PastInit /\ App1StartOffset > 0) =>
        /\ (readApp1SegmentHeader(src, App1StartOffset, App1Header).ok = 0)
               <=> HeaderRejected(src, App1StartOffset)
        /\ (sts = ERR_INVALID_APP1HEADER) <=> HeaderRejected(src, App1StartOffset)
        /\ pc = "returned" =>
               ((result = ERR_INVALID_APP1HEADER) <=> HeaderRejected(src, App1StartOffset))

\* a header of 18 readable bytes that says II is rejected because its magic
\* field holds 0x002A in the other byte order
C3_Witness ==
    /\ pc = "returned" /\ App1StartOffset > 0
    /\ Len(src) >= App1StartOffset + SIZEOF_APP1_HEADER
    /\ HeaderSaysII(src, App1StartOffset)
    /\ src[App1StartOffset + 13] = 0 /\ src[App1StartOffset + 14] = TIFF_VERSION
    /\ result = ERR_INVALID_APP1HEADER

(***************************************************************************)
(* C4                                                                      *)
(***************************************************************************)
\* 16-bit and 32-bit fields of f at offset p in the byte order le (TRUE: II)
Dec16At(le, f, p) ==
    IF le THEN f[p + 1] + 256 * f[p + 2] ELSE 256 * f[p + 1] + f[p + 2]
Dec32At(le, f, p) ==
    IF le THEN <<f[p + 3] + 256 * f[p + 4], f[p + 1] + 256 * f[p + 2]>>
    ELSE <<256 * f[p + 1] + f[p + 2], 256 * f[p + 3] + f[p + 4]>>

\* the file offset of the TIFF offset v (32 bits) of the segment at off
TiffPos(off, v) == IF v[1] = 0 THEN off + OFFSETOF_TIFF + v[2] ELSE FarPos

\* the file offset of the 0th IFD of the segment at off
MainPos(f, off) == TiffPos(off, Dec32At(HeaderSaysII(f, off), f, off + 14))

\* the directory at file offset p0 does not lie in the file with its tag
\* count, its descriptors and (withNext) its next-directory offset
DirUnreadable(f, le, p0, withNext) ==
    \/ p0 + 2 > Len(f)
    \/ p0 + 2 + SIZEOF_IFD_TAG * Dec16At(le, f, p0) + (IF withNext THEN 4 ELSE 0) > Len(f)

MainUnreadable(f, off) == DirUnreadable(f, HeaderSaysII(f, off), MainPos(f, off), TRUE)

\* createIfdTableArray has returned NULL and has parsed no other directory
\* than those of tried
AbortedAfter(tried) == ret.null /\ ifdArray = <<>> /\ parsed = tried

\* C4 as stated: a file that does not start with SOI gives
\* ERR_INVALID_JPEG, an invalid APP1/TIFF header ERR_INVALID_APP1HEADER, an
\* unparsable 0th IFD ERR_INVALID_IFD, each with a NULL return value and
\* no optional directory parsed.
C4_AsStated ==
    (op = "create" /\ pc = "returned" /\ src # NoFile) =>
        /\ ~StartsWithSOI(src) => (result = ERR_INVALID_JPEG /\ AbortedAfter(<<>>))
        /\ (App1StartOffset > 0 /\ HeaderRejected(src, App1StartOffset)) =>
               (result = ERR_INVALID_APP1HEADER /\ AbortedAfter(<<>>))
        /\ (App1StartOffset > 0 /\ ~HeaderRejected(src, App1StartOffset)
            /\ MainUnreadable(src, App1StartOffset)) =>
               (result = ERR_INVALID_IFD /\ AbortedAfter(<<IFD_0TH>>))

\* C4, amended: the same, where "does not start with SOI" is restricted to
\* files whose first two bytes can be read and differ from 0xFFD8 (a file
\* of fewer than two bytes gives ERR_READ_FILE).
C4_StructuralFailureAborts ==
    (op = "create" /\ pc = "returned" /\ src # NoFile) =>
        /\ (Len(src) >= 2 /\ BE16At(src, 0) # MARKER_SOI) =>
               (result = ERR_INVALID_JPEG /\ AbortedAfter(<<>>))
        /\ Len(src) < 2 => (result = ERR_READ_FILE /\ AbortedAfter(<<>>))
        /\ (App1StartOffset > 0 /\ HeaderRejected(src, App1StartOffset)) =>
               (result = ERR_INVALID_APP1HEADER /\ AbortedAfter(<<>>))
        /\ (App1StartOffset > 0 /\ ~HeaderRejected(src, App1StartOffset)
            /\ MainUnreadable(src, App1StartOffset)) =>
               (result = ERR_INVALID_IFD /\ AbortedAfter(<<IFD_0TH>>))

\* the header is valid, the 0th IFD is cut off by the end of the file, and
\* createIfdTableArray has returned NULL with ERR_INVALID_IFD
C4_Witness ==
    /\ op = "create" /\ pc = "returned" /\ App1StartOffset > 0
    /\ ~HeaderRejected(src, App1StartOffset)
    /\ MainUnreadable(src, App1StartOffset)
    /\ MainPos(src, App1StartOffset) + 2 <= Len(src)
    /\ result = ERR_INVALID_IFD /\ ret.null /\ parsed = <<IFD_0TH>>

(***************************************************************************)
(* C5                                                                      *)
(***************************************************************************)
\* the IFD types in a sequence of IFD tables
Kinds(ifds) == [i \in 1..Len(ifds) |-> ifds[i].ifdType]

Has(seq, x) == \E i \in 1..Len(seq) : seq[i] = x

\* the table of type k among ifds (there is one)
DirOf(ifds, k) == ifds[CHOOSE i \in 1..Len(ifds) : ifds[i].ifdType = k]

\* ifd holds the pointer tag tagId without decode error
PointerOK(ifd, tagId) ==
    /\ getTagNodePtrFromIfd(ifd, tagId) # NULL
    /\ getTagNodePtrFromIfd(ifd, tagId).error = 0

\* ifd holds a usable pointer tag tagId, and the tag count or a descriptor
\* of the directory it points to cannot be read
PointsToUnreadable(ifd, tagId) ==
    /\ PointerOK(ifd, tagId)
    /\ ~getTagNodePtrFromIfd(ifd, tagId).numData.null
    /\ DirUnreadable(src, HeaderSaysII(src, App1StartOffset),
                     TiffPos(App1StartOffset,
                             getTagNodePtrFromIfd(ifd, tagId).numData.at[1]),
                     FALSE)

\* the optional directories that cannot be read, the 0th IFD being ifds[1]
UnreadableKinds(ifds) ==
    {k \in {IFD_EXIF} : PointsToUnreadable(ifds[1], TAG_ExifIFDPointer)}
    \cup {k \in {IFD_GPS} : PointsToUnreadable(ifds[1], TAG_GPSInfoIFDPointer)}
    \cup {k \in {IFD_IO} : /\ Has(Kinds(ifds), IFD_EXIF)
                            /\ PointsToUnreadable(DirOf(ifds, IFD_EXIF),
                                                  TAG_InteroperabilityIFDPointer)}
    \cup {k \in {IFD_1ST} : /\ ifds[1].nextIfdOffset # U32(0)
                             /\ DirUnreadable(src, HeaderSaysII(src, App1StartOffset),
                                              TiffPos(App1StartOffset,
                                                      ifds[1].nextIfdOffset),
                                              FALSE)}

\* C5: when the 0th IFD parses and the tag count or a descriptor of an
\* optional directory cannot be read, that directory is left out, the
\* remaining discovery steps still run (the call does not stop before it
\* returns), the status is ERR_INVALID_IFD, and a non-NULL array of exactly
\* the directories that did parse is returned.
C5_OptionalFailureIsAbsorbed ==
    (op = "create" /\ Len(ifdArray) >= 1
     /\ \E k \in UnreadableKinds(ifdArray) : Has(parsed, k)) =>
        /\ pc # "undefined"
        /\ pc = "returned" =>
               /\ result = ERR_INVALID_IFD
               /\ ~ret.null
               /\ \A k \in UnreadableKinds(ifdArray) :
                      Has(parsed, k) /\ ~Has(Kinds(ret.at), k)
               /\ \A i \in 1..Len(parsed) :
                      Has(Kinds(ret.at), parsed[i]) \/ parsed[i] \in UnreadableKinds(ifdArray)
               /\ PointerOK(ifdArray[1], TAG_GPSInfoIFDPointer) => Has(parsed, IFD_GPS)
               /\ ifdArray[1].nextIfdOffset # U32(0) => Has(parsed, IFD_1ST)

(***************************************************************************)
(* C6                                                                      *)
(***************************************************************************)
\* the place of an IFD type in the order Main, Exif, Interop, GPS, Thumbnail
Rank(k) ==
    CASE k = IFD_0TH -> 1 [] k = IFD_EXIF -> 2 [] k = IFD_IO -> 3
      [] k = IFD_GPS -> 4 [] k = IFD_1ST -> 5

InDiscoveryOrder(kinds) ==
    \A i, j \in 1..Len(kinds) : i < j => Rank(kinds[i]) < Rank(kinds[j])

\* C6: a non-NULL array returned by createIfdTableArray lists at most 5
\* directories, each kind at most once, in the order Main, Exif, Interop,
\* GPS, Thumbnail; a parse of the Exif IFD is made iff the 0th IFD holds an
\* ExifIFDPointer tag without error, of the Interoperability IFD iff the
\* Exif IFD was parsed and holds an InteroperabilityIFDPointer tag without
\* error, of the GPS IFD iff the 0th IFD holds a GPSInfoIFDPointer tag
\* without error, of the 1st IFD iff the next-IFD offset of the 0th IFD is
\* not 0; when no parse fails, *result is the number of directories.
C6_ResultSetShape ==
    (op = "create" /\ pc = "returned" /\ ~ret.null) =>
        /\ Len(ret.at) <= 5
        /\ Kinds(ret.at)[1] = IFD_0TH
        /\ InDiscoveryOrder(Kinds(ret.at))
        /\ InDiscoveryOrder(parsed)
        /\ \A i \in 1..Len(ret.at) : Has(parsed, ret.at[i].ifdType)
        /\ Has(parsed, IFD_EXIF) <=> PointerOK(ret.at[1], TAG_ExifIFDPointer)
        /\ Has(parsed, IFD_IO) <=>
               /\ Has(Kinds(ret.at), IFD_EXIF)
               /\ PointerOK(DirOf(ret.at, IFD_EXIF), TAG_InteroperabilityIFDPointer)
        /\ Has(parsed, IFD_GPS) <=> PointerOK(ret.at[1], TAG_GPSInfoIFDPointer)
        /\ Has(parsed, IFD_1ST) <=> ret.at[1].nextIfdOffset # U32(0)
        /\ Len(parsed) = Len(ret.at) => result = Len(ret.at)

\* all five directories have been parsed and returned, and *result is 5
C6_Witness ==
    /\ op = "create" /\ pc = "returned" /\ ~ret.null
    /\ Kinds(ret.at) = <<IFD_0TH, IFD_EXIF, IFD_IO, IFD_GPS, IFD_1ST>>
    /\ result = 5

(***************************************************************************)
(* C7                                                                      *)
(***************************************************************************)
\* createIfdTableArray has returned an array; its first table is the 0th IFD
MainReturned == op = "create" /\ pc = "returned" /\ ~ret.null

\* every descriptor of the 0th IFD has its node, so that node i belongs to
\* descriptor i
NodePerDescriptor == Len(ret.at[1].tags) = ret.at[1].tagCount

\* the file offset of descriptor i (1-based) of the 0th IFD
DescriptorAt(f, off, i) == MainPos(f, off) + 2 + SIZEOF_IFD_TAG * (i - 1)

\* the fields of that descriptor as the file has them, in the declared order
RawTag(f, off, i) ==
    [id |-> Dec16At(HeaderSaysII(f, off), f, DescriptorAt(f, off, i)),
     type |-> Dec16At(HeaderSaysII(f, off), f, DescriptorAt(f, off, i) + 2),
     count |-> Dec32At(HeaderSaysII(f, off), f, DescriptorAt(f, off, i) + 4),
     offset |-> Dec32At(HeaderSaysII(f, off), f, DescriptorAt(f, off, i) + 8),
     field |-> SubSeq(f, DescriptorAt(f, off, i) + 9, DescriptorAt(f, off, i) + 12)]

\* the size in bytes of one value of a type
UnitSize(type) ==
    IF type \in {TYPE_BYTE, TYPE_ASCII, TYPE_SBYTE, TYPE_UNDEFINED} THEN 1
    ELSE IF type \in {TYPE_SHORT, TYPE_SSHORT} THEN 2
    ELSE IF type \in {TYPE_LONG, TYPE_SLONG} THEN 4 ELSE 8

\* the value of the tag is stored out of line and ends behind the file
ValueUnreadable(f, off, raw) ==
    /\ raw.type \in TYPE_BYTE..TYPE_SRATIONAL
    /\ raw.count[1] = 0
    /\ raw.count[2] * UnitSize(raw.type) > 4
    /\ TiffPos(off, raw.offset) + raw.count[2] * UnitSize(raw.type) > Len(f)

\* the file f with the value field of the descriptor at d set to the TIFF
\* offset v
WithValueAt(f, le, d, v) ==
    [k \in 1..Len(f) |-> IF k > d + 8 /\ k <= d + 12 THEN Enc32(le, v)[k - d - 8] ELSE f[k]]

\* the 0th IFD of src as parsed when descriptor i points to readable bytes
\* (those at the start of the 0th IFD)
MainWithReadable(i, val0) ==
    parseIFD(WithValueAt(src, HeaderSaysII(src, App1StartOffset),
                         DescriptorAt(src, App1StartOffset, i), SIZEOF_TIFF_HEADER),
             App1StartOffset, App1Header, HdrIfd0thOffset(App1Header), IFD_0TH, val0)

\* node keeps the id, type and count of raw and has the error flag set
RetainedWithError(node, raw) ==
    /\ node.tagId = raw.id /\ node.type = raw.type /\ node.count = raw.count
    /\ node.error = 1

\* C7: in a 0th IFD whose descriptors are all readable, a tag whose
\* out-of-line value cannot be read keeps its id, type and count and has
\* the error flag set, the directory is returned, and every other tag
\* decodes to the value it has when the value of that tag is readable.
C7_CorruptTagLeavesSiblingsAlone ==
    (MainReturned /\ NodePerDescriptor) =>
        \A i \in 1..Len(ret.at[1].tags) :
            ValueUnreadable(src, App1StartOffset, RawTag(src, App1StartOffset, i)) =>
                /\ RetainedWithError(ret.at[1].tags[i], RawTag(src, App1StartOffset, i))
                /\ \A val0 \in UninitValues :
                      /\ MainWithReadable(i, val0).ifd # NULL
                      /\ \A j \in 1..Len(ret.at[1].tags) :
                            j # i => MainWithReadable(i, val0).ifd.tags[j] = ret.at[1].tags[j]

(***************************************************************************)
(* C8                                                                      *)
(***************************************************************************)
\* C8: an Ascii or Undefined tag with a count of 1..4 has as its value the
\* first count bytes of the 4-byte value field of its descriptor, in file
\* order; with a count of 5 or more it has the count bytes found at its
\* offset counted from the TIFF header (App1StartOffset + 10), whether or
\* not a NUL is among them.
C8_BytesValueByCount ==
    (MainReturned /\ NodePerDescriptor) =>
        \A i \in 1..Len(ret.at[1].tags) :
            LET raw == RawTag(src, App1StartOffset, i)
                node == ret.at[1].tags[i]
                p == TiffPos(App1StartOffset, raw.offset)
            IN  (raw.type \in {TYPE_ASCII, TYPE_UNDEFINED} /\ raw.count[1] = 0) =>
                    /\ raw.count[2] \in 1..4 =>
                           /\ node.error = 0
                           /\ node.byteData = Ptr(SubSeq(raw.field, 1, raw.count[2]))
                    /\ (raw.count[2] >= 5 /\ p + raw.count[2] <= Len(src)) =>
                           /\ node.error = 0
                           /\ node.byteData = Ptr(SubSeq(src, p + 1, p + raw.count[2]))

\* on a host whose byte order is not that of the data, a 0th IFD has an
\* Ascii tag of count 4 with the 4 bytes of its value field and an Ascii tag
\* of count 5 with 5 bytes from the data area, a NUL in their middle
C8_Witness ==
    /\ MainReturned /\ NodePerDescriptor
    /\ hostLE # HeaderSaysII(src, App1StartOffset)
    /\ \E i, j \in 1..Len(ret.at[1].tags) :
          /\ RawTag(src, App1StartOffset, i).type = TYPE_ASCII
          /\ RawTag(src, App1StartOffset, i).count = U32(4)
          /\ ret.at[1].tags[i].byteData = Ptr(RawTag(src, App1StartOffset, i).field)
          /\ RawTag(src, App1StartOffset, j).type = TYPE_ASCII
          /\ RawTag(src, App1StartOffset, j).count = U32(5)
          /\ ~ret.at[1].tags[j].byteData.null
          /\ Len(ret.at[1].tags[j].byteData.at) = 5
          /\ ret.at[1].tags[j].byteData.at[3] = 0
          /\ ret.at[1].tags[j].byteData.at[5] # 0

(***************************************************************************)
(* C9                                                                      *)
(***************************************************************************)
\* C9: a descriptor of the 0th IFD whose type code is not one of 1..10 has
\* a node in the directory with its id, type and count and with the error
\* flag set.
C9_UnknownTypeIsRetainedWithError ==
    MainReturned =>
        \A i \in 1..ret.at[1].tagCount :
            RawTag(src, App1StartOffset, i).type \notin TYPE_BYTE..TYPE_SRATIONAL =>
                \E j \in 1..Len(ret.at[1].tags) :
                    RetainedWithError(ret.at[1].tags[j], RawTag(src, App1StartOffset, i))

(***************************************************************************)
(* C10                                                                     *)
(***************************************************************************)
\* the declared length of the segment at off
DeclaredLength(f, off) == BE16At(f, off + 2)

\* f has a valid Exif APP1 segment at off that lies wholly inside f
ValidExifSegmentAt(f, off) ==
    /\ StartsWithSOI(f)
    /\ off > 0 /\ off = FirstExifSegment(f, 2)
    /\ ~HeaderRejected(f, off)
    /\ off + 2 + DeclaredLength(f, off) <= Len(f)

\* C10: for a source file with a valid Exif APP1 segment at off, of declared
\* length len and wholly inside the file, removeExifSegmentFromJPEGFile
\* returns 1 and the destination file is source[0, off) followed by
\* source[off + 2 + len, end), len + 2 bytes shorter than the source.
C10_RemoveCutsTheSegmentOut ==
    (op = "remove" /\ pc = "returned" /\ dstWritable
     /\ ValidExifSegmentAt(src, FirstExifSegment(src, 2))) =>
        LET off == FirstExifSegment(src, 2)
            len == DeclaredLength(src, off)
        IN  /\ result = 1
            /\ dstState = "created"
            /\ dst = SubSeq(src, 1, off) \o SubSeq(src, off + 2 + len + 1, Len(src))
            /\ Len(dst) = Len(src) - (2 + len)

\* a segment behind more bytes than the buffer holds, with more bytes than
\* the buffer holds behind it, has been removed
C10_Witness ==
    /\ op = "remove" /\ pc = "returned" /\ result = 1
    /\ ValidExifSegmentAt(src, App1StartOffset)
    /\ App1StartOffset > SIZEOF_BUF
    /\ Len(src) - (App1StartOffset + 2 + DeclaredLength(src, App1StartOffset)) > SIZEOF_BUF
    /\ Len(dst) = Len(src) - (2 + DeclaredLength(src, App1StartOffset))

(***************************************************************************)
(* C11                                                                     *)
(***************************************************************************)
\* init has succeeded on the source file f: its Exif segment was found and
\* the APP1/TIFF header was accepted
DiscoverySucceeds(f) ==
    /\ getApp1StartOffset(f) > 0
    /\ ~HeaderRejected(f, getApp1StartOffset(f))

\* C11: removeExifSegmentFromJPEGFile fails with four pairwise different
\* status codes for its four causes of failure, those its documentation
\* lists: ERR_READ_FILE when the source file cannot be opened,
\* ERR_WRITE_FILE when the destination file cannot be opened for writing,
\* ERR_INVALID_JPEG when the source does not begin with the JPEG signature,
\* ERR_INVALID_APP1HEADER when the APP1/TIFF header is not valid.
C11_FourCausesFourCodes ==
    (op = "remove" /\ pc = "returned") =>
        /\ src = NoFile => result = ERR_READ_FILE
        /\ (src # NoFile /\ Len(src) >= 2 /\ BE16At(src, 0) # MARKER_SOI) =>
               result = ERR_INVALID_JPEG
        /\ (src # NoFile /\ getApp1StartOffset(src) > 0
            /\ HeaderRejected(src, getApp1StartOffset(src))) =>
               result = ERR_INVALID_APP1HEADER
        /\ (src # NoFile /\ DiscoverySucceeds(src) /\ ~dstWritable) =>
               /\ result = ERR_WRITE_FILE
               /\ result \notin {ERR_READ_FILE, ERR_INVALID_JPEG, ERR_INVALID_APP1HEADER}

(***************************************************************************)
(* C12                                                                     *)
(***************************************************************************)
AllIfdTypes == {IFD_0TH, IFD_1ST, IFD_EXIF, IFD_GPS, IFD_IO}

\* the result set ifds has a directory of type ifdType with a tag tagId
TagPresent(ifds, ifdType, tagId) ==
    \E i \in 1..Len(ifds) :
        /\ ifds[i].ifdType = ifdType
        /\ \E j \in 1..Len(ifds[i].tags) : ifds[i].tags[j].tagId = tagId

\* the first tag tagId of the directory of type ifdType (there is one)
FirstMatch(ifds, ifdType, tagId) ==
    LET d == DirOf(ifds, ifdType)
    IN  d.tags[CHOOSE j \in 1..Len(d.tags) :
                   /\ d.tags[j].tagId = tagId
                   /\ \A k \in 1..(j - 1) : d.tags[k].tagId # tagId]

\* copy has the id, type, count, error flag and values of tag
SameTag(copy, tag) ==
    /\ copy.tagId = tag.tagId /\ copy.type = tag.type /\ copy.count = tag.count
    /\ copy.error = tag.error
    /\ copy.numData = tag.numData /\ copy.byteData = tag.byteData

\* the blocks of block sequence a and those of b are different blocks
Disjoint(a, b) == \A k \in 1..Len(a), l \in 1..Len(b) : a[k] # b[l]

\* what C12 says of one query (ifdType, tagId) on the result set
QueryAnswer(ifdType, tagId) ==
    /\ (getTagInfo(ret, ifdType, tagId) # NULL) <=> TagPresent(ret.at, ifdType, tagId)
    /\ TagPresent(ret.at, ifdType, tagId) =>
           /\ getTagInfo(ret, ifdType, tagId) # NULL
           /\ SameTag(getTagInfo(ret, ifdType, tagId), FirstMatch(ret.at, ifdType, tagId))

\* C12: getTagInfo(resultSet, kind, id) returns a tag exactly when the
\* result set has a directory of that kind with a tag of that id, a tag
\* with the error flag set included; the tag returned has the id, type,
\* count, error flag and values of the first such tag, and the tags the
\* caller holds from getTagInfo are in heap blocks that are not blocks of
\* the result set.
C12_GetTagInfoFindsEveryTag ==
    HasResultSet =>
        /\ \A ifdType \in AllIfdTypes, tagId \in QueryIds : QueryAnswer(ifdType, tagId)
        /\ \A n \in 1..Len(held) :
               held[n].by = "getTagInfo" =>
                   /\ Disjoint(freeTagNode(held[n].node, held[n].at[1], held[n].at[2]),
                               freeIfdTableArray(ret.at))
                   /\ SameTag(held[n].node,
                              FirstMatch(ret.at, held[n].ifdType, held[n].tagId))

(***************************************************************************)
(* C13                                                                     *)
(***************************************************************************)
\* every block of the sequence blocks has been freed
AllFreed(blocks) == \A k \in 1..Len(blocks) : IsFreed(blocks[k])

\* C13: whatever getTagInfo and getTagInfoFromIfd calls are made on a
\* result set, with each tag returned passed to freeTagInfo and then the
\* result set passed to freeIfdTableArray: nothing undefined happens, no
\* block is freed twice, no block of the result set is freed while the
\* caller still holds the result set, and in the end every block of the
\* result set and of the tags handed out has been freed.
C13_QueriedTagsLiveOnTheirOwn ==
    (op = "create" /\ ~ret.null) =>
        /\ pc # "undefined"
        /\ \A k, l \in 1..Len(freeLog) : k # l => freeLog[k] # freeLog[l]
        /\ pc = "returned" => ~AnyFreed(freeIfdTableArray(ret.at))
        /\ pc = "freed" =>
               /\ AllFreed(freeIfdTableArray(ret.at))
               /\ \A n \in 1..Len(held) :
                      AllFreed(freeTagNode(held[n].node, held[n].at[1], held[n].at[2]))

(***************************************************************************)
(* C14                                                                     *)
(***************************************************************************)
\* the static variables of a process that has made no call yet
FreshOffset == 0 - 1
FreshHeader == [i \in 1..SIZEOF_APP1_HEADER |-> 0]

\* the initial contents the local val can have in the five parseIFD calls
ValChoices == [1..5 -> UninitValues]

\* what the call that has just returned has given its caller
Returned == [ub |-> FALSE, result |-> result, ret |-> ret]

\* what the same call gives as the first call of a fresh process
FreshCall(vs) == createIfdTableArray(src, FreshOffset, FreshHeader, vs)

\* C14: in a series of createIfdTableArray and
\* removeExifSegmentFromJPEGFile calls, the status and the result set of
\* each createIfdTableArray call are those the call has as the first call
\* of a fresh process: they depend on the content of its file only.
C14_ResultDependsOnFileOnly ==
    (op = "create" /\ pc = "returned") =>
        \A vs \in ValChoices : Returned = FreshCall(vs)

(***************************************************************************)
(* C15                                                                     *)
(***************************************************************************)
\* C15: a createIfdTableArray call during which another call, on another
\* file, runs its init returns a status and a result set that it can also
\* return when it runs alone, and runs into undefined behaviour only when
\* it can do so alone.
C15_ConcurrentCallsDoNotInterfere ==
    (op = "create" /\ pc \in {"returned", "undefined"}) =>
        \E vs \in ValChoices :
            IF pc = "returned" THEN Returned = FreshCall(vs) ELSE FreshCall(vs).ub

(***************************************************************************)
(* C16                                                                     *)
(***************************************************************************)
\* Every marker the scanner reads behind a segment it has skipped stands
\* at the position of the skipped segment's marker + 2 + gap + the value of
\* its length field: gap = 2 counts the length from the position right
\* after the 2-byte length field, gap = 0 from the position of the length
\* field itself.
NextMarkerAfter(gap) ==
    \A k \in 1..(Len(MarkersRead(src)) - 1) :
        MarkersRead(src)[k + 1] =
            MarkersRead(src)[k] + 2 + gap + BE16At(src, MarkersRead(src)[k] + 2)

\* C16 as stated: behind an APPn segment that is not the Exif segment the
\* scanner reads the next marker `length` bytes after the position right
\* after the 2-byte length field.
C16_AsStated == (PastInit /\ src # NoFile) => NextMarkerAfter(2)

\* C16, amended: behind an APPn segment that is not the Exif segment (a
\* non-APP1 APPn segment, or an APP1 segment whose identifier is not
\* "Exif\0") the scanner reads the next marker `length` bytes after the
\* position of the 2-byte length field, that is length - 2 bytes after the
\* position right after it.
C16_SkipCountsFromTheLengthField == (PastInit /\ src # NoFile) => NextMarkerAfter(0)

\* the scanner has skipped an APP1 segment that is not Exif and then a
\* segment that is not APP1, and has found the Exif segment behind them
C16_Witness ==
    /\ pc = "returned" /\ src # NoFile /\ Len(MarkersRead(src)) = 3
    /\ BE16At(src, MarkersRead(src)[1]) = MARKER_APP1
    /\ BE16At(src, MarkersRead(src)[2]) = MARKER_APP0 + 2
    /\ App1StartOffset = MarkersRead(src)[3]

(***************************************************************************)
(* C17                                                                     *)
(***************************************************************************)
\* the tag count the file has at the start of its 0th IFD
MainCount(f, off) == Dec16At(HeaderSaysII(f, off), f, MainPos(f, off))

\* the file offset right behind the last descriptor of the 0th IFD
MainEnd(f, off) == MainPos(f, off) + 2 + SIZEOF_IFD_TAG * MainCount(f, off)

\* the 0th IFD lies in the file with its next-directory offset
MainComplete(f, off) ==
    /\ MainPos(f, off) + 2 <= Len(f)
    /\ MainEnd(f, off) + 4 <= Len(f)

\* C17: wherever the header places the 0th IFD (ifd0Offset = 8 or not), the
\* next-directory offset stored in its table is the 4-byte value, in the
\* declared byte order, right behind its last descriptor, at TIFF base +
\* ifd0Offset + 2 + 12 * count, and the first tag of the table is the one
\* of the first descriptor.
C17_NextOffsetFollowsTheLastDescriptor ==
    (MainReturned /\ MainComplete(src, App1StartOffset)) =>
        /\ ret.at[1].nextIfdOffset =
               Dec32At(HeaderSaysII(src, App1StartOffset), src,
                       MainEnd(src, App1StartOffset))
        /\ (NodePerDescriptor /\ ret.at[1].tagCount >= 1) =>
               ret.at[1].tags[1].tagId = RawTag(src, App1StartOffset, 1).id

(***************************************************************************)
(* C18                                                                     *)
(***************************************************************************)
\* the value of the tag is stored out of line: more than four bytes, or a
\* Rational
StoredOutOfLine(raw) ==
    /\ raw.type \in TYPE_BYTE..TYPE_SRATIONAL
    /\ raw.count[1] = 0
    /\ \/ raw.count[2] * UnitSize(raw.type) > 4
       \/ raw.type \in {TYPE_RATIONAL, TYPE_SRATIONAL} /\ raw.count[2] > 0

\* the size in bytes of the value of the tag
ValueSize(raw) == raw.count[2] * UnitSize(raw.type)

\* the file position after descriptor i of the 0th IFD has been decoded
PositionAfter(f, off, h, i) ==
    DecodeTag(f, off, h, Descriptor(f, h, DescriptorAt(f, off, i)), U32(0)).cur

\* C18: a tag of the 0th IFD whose value is stored out of line and is at
\* least as long as the segment is declared to be gets the error flag, and
\* the file position stays behind its descriptor: its value is neither
\* sought nor read.
C18_OversizedValuesAreNotRead ==
    (MainReturned /\ NodePerDescriptor) =>
        \A i \in 1..Len(ret.at[1].tags) :
            (/\ StoredOutOfLine(RawTag(src, App1StartOffset, i))
             /\ ValueSize(RawTag(src, App1StartOffset, i))
                    >= DeclaredLength(src, App1StartOffset))
            => /\ ret.at[1].tags[i].error = 1
               /\ PositionAfter(src, App1StartOffset, App1Header, i)
                      = DescriptorAt(src, App1StartOffset, i) + SIZEOF_IFD_TAG

(***************************************************************************)
(* C19                                                                     *)
(***************************************************************************)
\* the first file offset behind the segment at off
BehindSegment(f, off) == off + 2 + DeclaredLength(f, off)

\* the value of the tag is stored out of line and its bytes do not all lie
\* inside the segment
ValueLeavesSegment(f, off, raw) ==
    /\ StoredOutOfLine(raw)
    /\ TiffPos(off, raw.offset) + ValueSize(raw) > BehindSegment(f, off)

\* the file has a byte at every offset of the value
ValueInFile(f, off, raw) == TiffPos(off, raw.offset) + ValueSize(raw) <= Len(f)

\* C19: a tag of the 0th IFD whose out-of-line value does not lie wholly
\* inside the Exif segment gets the error flag, also when the file has bytes
\* at every offset of the value.
C19_ValuesOutsideTheSegmentAreCorrupt ==
    (MainReturned /\ NodePerDescriptor) =>
        \A i \in 1..Len(ret.at[1].tags) :
            ValueLeavesSegment(src, App1StartOffset, RawTag(src, App1StartOffset, i))
                => ret.at[1].tags[i].error = 1

(***************************************************************************)
(* C20                                                                     *)
(***************************************************************************)
\* index k lies in the field of w bytes at file offset p
InField(p, w, k) == k > p /\ k <= p + w

\* the index that byte-reversing that field exchanges with index k
Reversed(p, w, k) == 2 * p + w + 1 - k

\* the width in bytes of one element of a value, and their number
ElementWidth(type) ==
    IF type \in {TYPE_SHORT, TYPE_SSHORT} THEN 2
    ELSE IF type \in {TYPE_LONG, TYPE_SLONG, TYPE_RATIONAL, TYPE_SRATIONAL} THEN 4
    ELSE 1
ElementCount(raw) ==
    IF raw.type \in {TYPE_RATIONAL, TYPE_SRATIONAL} THEN 2 * raw.count[2] ELSE raw.count[2]

\* byte-reversing the element of w bytes in which index k lies, the elements
\* starting at file offset p
ReversedElement(p, w, k) == Reversed(p + w * ((k - 1 - p) \div w), w, k)

\* index k inside the descriptor at d: its id, type and count are reversed,
\* and its value field is reversed as an offset or element by element
MirrorInDescriptor(d, raw, k) ==
    IF InField(d, 2, k) THEN Reversed(d, 2, k)
    ELSE IF InField(d + 2, 2, k) THEN Reversed(d + 2, 2, k)
    ELSE IF InField(d + 4, 4, k) THEN Reversed(d + 4, 4, k)
    ELSE IF StoredOutOfLine(raw) THEN Reversed(d + 8, 4, k)
    ELSE ReversedElement(d + 8, ElementWidth(raw.type), k)

\* index k lies in the out-of-line value of descriptor i of the 0th IFD
InValue(f, off, i, k) ==
    /\ StoredOutOfLine(RawTag(f, off, i))
    /\ InField(TiffPos(off, RawTag(f, off, i).offset),
               ElementCount(RawTag(f, off, i)) * ElementWidth(RawTag(f, off, i).type), k)

\* the index whose byte the mirror of f has at index k
MirrorIndex(f, off, k) ==
    IF InField(off + OFFSETOF_TIFF + 2, 2, k) THEN Reversed(off + OFFSETOF_TIFF + 2, 2, k)
    ELSE IF InField(off + OFFSETOF_TIFF + 4, 4, k)
    THEN Reversed(off + OFFSETOF_TIFF + 4, 4, k)
    ELSE IF InField(MainPos(f, off), 2, k) THEN Reversed(MainPos(f, off), 2, k)
    ELSE IF InField(MainEnd(f, off), 4, k) THEN Reversed(MainEnd(f, off), 4, k)
    ELSE IF \E i \in 1..MainCount(f, off) : InField(DescriptorAt(f, off, i), SIZEOF_IFD_TAG, k)
    THEN LET i == CHOOSE i \in 1..MainCount(f, off) :
                      InField(DescriptorAt(f, off, i), SIZEOF_IFD_TAG, k)
         IN  MirrorInDescriptor(DescriptorAt(f, off, i), RawTag(f, off, i), k)
    ELSE IF \E i \in 1..MainCount(f, off) : InValue(f, off, i, k)
    THEN LET i == CHOOSE i \in 1..MainCount(f, off) : InValue(f, off, i, k)
         IN  ReversedElement(TiffPos(off, RawTag(f, off, i).offset),
                             ElementWidth(RawTag(f, off, i).type), k)
    ELSE k

\* II for MM and MM for II
OtherOrder(b) == IF b = 73 THEN 77 ELSE IF b = 77 THEN 73 ELSE b

\* the file written in the other byte order, and its byte k: the segment at
\* off with the byte-order mark exchanged and every multi-byte field of the
\* TIFF header and of the 0th IFD, and every element of its values,
\* byte-reversed
MirrorByte(f, off, k) ==
    IF InField(off + OFFSETOF_TIFF, 2, k) THEN OtherOrder(f[k])
    ELSE f[MirrorIndex(f, off, k)]
Mirror(f, off) == SubSeq([k \in 1..Len(f) |-> MirrorByte(f, off, k)], 1, Len(f))

\* the out-of-line value of descriptor i lies behind the 0th IFD and wholly
\* inside the file, or wholly behind the file
ValueApart(f, off, i) ==
    LET p == TiffPos(off, RawTag(f, off, i).offset)
        n == ElementCount(RawTag(f, off, i)) * ElementWidth(RawTag(f, off, i).type)
    IN  \/ p >= MainEnd(f, off) + 4 /\ p + n <= Len(f)
        \/ p >= Len(f)

\* the out-of-line values of descriptors i and j share no byte
ValuesDisjoint(f, off, i, j) ==
    LET p == TiffPos(off, RawTag(f, off, i).offset)
        n == ElementCount(RawTag(f, off, i)) * ElementWidth(RawTag(f, off, i).type)
        q == TiffPos(off, RawTag(f, off, j).offset)
        m == ElementCount(RawTag(f, off, j)) * ElementWidth(RawTag(f, off, j).type)
    IN  p + n <= q \/ q + m <= p

\* the segment at off has a valid header, a 0th IFD that lies behind it and
\* inside the file, and values that overlap neither the IFD nor each other:
\* the fields and elements that the mirror reverses are then distinct
MirrorDefined(f, off) ==
    /\ ~HeaderRejected(f, off)
    /\ MainPos(f, off) >= off + SIZEOF_APP1_HEADER
    /\ MainComplete(f, off)
    /\ \A i \in 1..MainCount(f, off) :
           /\ RawTag(f, off, i).count[1] = 0
           /\ StoredOutOfLine(RawTag(f, off, i)) => ValueApart(f, off, i)
           /\ \A j \in 1..MainCount(f, off) :
                  (i < j /\ StoredOutOfLine(RawTag(f, off, i))
                         /\ StoredOutOfLine(RawTag(f, off, j)))
                      => ValuesDisjoint(f, off, i, j)

\* the 0th IFD parsed from the file m, val holding val0 at first
MainOf(m, h, val0) == parseIFD(m, App1StartOffset, h, HdrIfd0thOffset(h), IFD_0TH, val0)

\* the 0th IFD parsed from the mirror of src
MirrorMain(val0) ==
    LET m == Mirror(src, App1StartOffset)
    IN  MainOf(m, readApp1SegmentHeader(m, App1StartOffset, App1Header).hdr, val0)

\* a is a table whose numeric tags have the values and error flags of those
\* of the table b
SameNumbers(a, b) ==
    /\ a # NULL
    /\ Len(a.tags) = Len(b.tags)
    /\ \A i \in 1..Len(a.tags) :
           (b.tags[i].type \in TYPE_BYTE..TYPE_SRATIONAL
                /\ ~(b.tags[i].type \in {TYPE_ASCII, TYPE_UNDEFINED}))
               => /\ a.tags[i].type = b.tags[i].type
                  /\ a.tags[i].numData = b.tags[i].numData
                  /\ a.tags[i].error = b.tags[i].error

\* C20: the numeric tags of the 0th IFD decode to the same values from a
\* file and from that file written in the other byte order, on a
\* little-endian and on a big-endian host.
C20_DecodingIgnoresByteOrder ==
    (MainReturned /\ NodePerDescriptor /\ MirrorDefined(src, App1StartOffset)) =>
        \E val0 \in UninitValues : SameNumbers(MirrorMain(val0).ifd, ret.at[1])

(***************************************************************************)
(* C21                                                                     *)
(***************************************************************************)
\* the tables of the array createIfdTableArray has returned
ReturnedTables == IF MainReturned THEN ret.at ELSE <<>>

\* a node of Rational type: its count fits in 16 bits and it holds two
\* numbers for each of its count values
HoldsPairs(node) ==
    /\ ~node.numData.null
    /\ node.count[1] = 0
    /\ Len(node.numData.at) = 2 * node.count[2]

\* number j (1-based) of the value of descriptor i of the 0th IFD, read from
\* the file in the declared byte order
NumberInFile(f, off, i, j) ==
    Dec32At(HeaderSaysII(f, off), f, TiffPos(off, RawTag(f, off, i).offset) + 4 * (j - 1))

\* decoding descriptor i of the 0th IFD has undefined behaviour
UndefinedAt(f, off, h, i) ==
    DecodeTag(f, off, h, Descriptor(f, h, DescriptorAt(f, off, i)), U32(0)).ub

\* the parse of the 0th IFD had undefined behaviour at a Rational tag
UndefinedAtRational ==
    /\ op = "create" /\ pc = "undefined" /\ parsed = <<IFD_0TH>>
    /\ \E i \in 1..MainCount(src, App1StartOffset) :
           /\ DescriptorAt(src, App1StartOffset, i) + SIZEOF_IFD_TAG <= Len(src)
           /\ RawTag(src, App1StartOffset, i).type \in {TYPE_RATIONAL, TYPE_SRATIONAL}
           /\ UndefinedAt(src, App1StartOffset, App1Header, i)

\* C21: every Rational or SRational tag of a returned directory whose error
\* flag is clear holds 2 * count numbers, those of the 0th IFD being the
\* 32-bit fields of the file in the declared byte order, and no count, however
\* large, makes the decoding of such a tag undefined.
C21_RationalHoldsTwiceCountNumbers ==
    /\ \A t \in 1..Len(ReturnedTables) :
           \A i \in 1..Len(ReturnedTables[t].tags) :
               (IsRational(ReturnedTables[t].tags[i].type)
                    /\ ReturnedTables[t].tags[i].error = 0)
                   => HoldsPairs(ReturnedTables[t].tags[i])
    /\ (MainReturned /\ NodePerDescriptor) =>
           \A i \in 1..Len(ret.at[1].tags) :
               (IsRational(ret.at[1].tags[i].type) /\ ret.at[1].tags[i].error = 0
                    /\ HoldsPairs(ret.at[1].tags[i]))
                   => \A j \in 1..Len(ret.at[1].tags[i].numData.at) :
                          ret.at[1].tags[i].numData.at[j]
                              = NumberInFile(src, App1StartOffset, i, j)
    /\ ~UndefinedAtRational

(***************************************************************************)
(* C23                                                                     *)
(***************************************************************************)
\* createIfdTableArray has parsed the 0th IFD, with or without success
MainParsed == op = "create" /\ Len(parsed) > 0 /\ pc # "ifd0"

\* descriptor i of the 0th IFD lies wholly inside the file
DescriptorInFile(f, off, i) == DescriptorAt(f, off, i) + SIZEOF_IFD_TAG <= Len(f)

\* what the read of the value of descriptor i of the 0th IFD asks for
RequestAt(f, off, h, i) == ReadRequest(h, Descriptor(f, h, DescriptorAt(f, off, i)))

\* C23: whatever the type, the count and the declared length of the segment,
\* the read of the out-of-line value of a tag of the 0th IFD asks for no more
\* bytes than the buffer it stores them in can hold, and decoding the tag
\* touches nothing outside that buffer.
C23_ReadsFitTheirBuffer ==
    (MainParsed /\ MainPos(src, App1StartOffset) + 2 <= Len(src)) =>
        \A i \in 1..MainCount(src, App1StartOffset) :
            DescriptorInFile(src, App1StartOffset, i)
                => /\ U32AtMost(RequestAt(src, App1StartOffset, App1Header, i).asked,
                                RequestAt(src, App1StartOffset, App1Header, i).capacity)
                   /\ ~UndefinedAt(src, App1StartOffset, App1Header, i)

(***************************************************************************)
(* C24                                                                     *)
(***************************************************************************)
\* createIfdTableArray is about to look up a pointer tag
AtPointerLookup == op = "create" /\ pc \in {"exif", "io", "gps"}

\* the tag it finds (or NULL): the Exif and GPS pointers are looked up in the
\* 0th IFD, the Interoperability pointer in the Exif IFD just added
PointerFound ==
    IF pc = "exif" THEN getTagNodePtrFromIfd(ifdArray[1], TAG_ExifIFDPointer)
    ELSE IF pc = "io"
    THEN getTagNodePtrFromIfd(ifdArray[Len(ifdArray)], TAG_InteroperabilityIFDPointer)
    ELSE getTagNodePtrFromIfd(ifdArray[1], TAG_GPSInfoIFDPointer)

\* the node holds a number to take an offset from
HasNumber(tag) == ~tag.numData.null /\ Len(tag.numData.at) >= 1

\* C24: a pointer tag that createIfdTableArray finds with its error flag
\* clear, and so takes a directory offset from, holds at least one numeric
\* value, whatever its declared type.
C24_PointerTagsHoldANumber ==
    AtPointerLookup =>
        ((PointerFound # NULL /\ PointerFound.error = 0) => HasNumber(PointerFound))

(***************************************************************************)
(* C25                                                                     *)
(***************************************************************************)
\* removeExifSegmentFromJPEGFile is running or has returned, and segment
\* discovery cannot succeed: the source file cannot be opened, or it has no
\* Exif segment with an acceptable header
DiscoveryFails ==
    /\ op = "remove"
    /\ src = NoFile \/ ~DiscoverySucceeds(src)

\* the destination file has not been opened for writing: it was neither
\* created nor truncated, and nothing was written to it
DestinationUntouched == dstState = "absent" /\ dst = <<>>

\* no step of removeExifSegmentFromJPEGFile behind its fopen changes the
\* source file
SourceOnlyRead == (op = "remove" /\ pc # "idle") => src' = src

\* C25: when segment discovery in removeExifSegmentFromJPEGFile does not
\* succeed, the destination file is at no time opened, created or truncated;
\* and whether it succeeds or not, the source file is never written.
C25_FailedDiscoveryLeavesFilesAlone ==
    /\ [](DiscoveryFails => DestinationUntouched)
    /\ [][SourceOnlyRead]_vars

\* a call has returned ERR_INVALID_APP1HEADER for a source whose Exif segment
\* has an invalid header, and the destination file, which could have been
\* opened, was not
C25_Witness ==
    /\ op = "remove" /\ pc = "returned" /\ dstWritable
    /\ DestinationUntouched
    /\ src # NoFile /\ getApp1StartOffset(src) > 0
    /\ HeaderRejected(src, getApp1StartOffset(src))
    /\ result = ERR_INVALID_APP1HEADER

(***************************************************************************)
(* C22                                                                     *)
(***************************************************************************)
\* every marker the scanner's loop reads stands behind the one read before
\* it: each iteration moves the file position forward
RECURSIVE Ascending(_)
Ascending(s) == Len(s) < 2 \/ (s[1] < s[2] /\ Ascending(Tail(s)))

\* a directory that parseIFD has returned holds no more tags than its count
WithinTagCount(ifd) == Len(ifd.tags) <= ifd.tagCount

\* the call cannot go on in a defined way: what it does next, and whether it
\* returns, is not determined by the program
Derailed == op = "create" /\ pc = "undefined"

\* C22: createIfdTableArray terminates on every input file: the scanner's
\* loop moves forward with every marker it reads, also behind an APPn
\* segment of length 0 or 1; no directory holds more tags than its count;
\* at most five directories are parsed, also when pointers lead back to a
\* directory parsed before; and the call never reaches a state from which
\* its return is not determined.
C22_CreateAlwaysTerminates ==
    op = "create" =>
        /\ (pc # "idle" /\ src # NoFile) => Ascending(MarkersRead(src))
        /\ \A t \in 1..Len(ifdArray) : WithinTagCount(ifdArray[t])
        /\ Len(parsed) <= 5
        /\ ~Derailed

====
